---- MODULE Spec2Model ----
(***************************************************************************)
(* Circuit Geometry Engine of startrack-f1: the geometry validator         *)
(* (GeometryEngine.validateGeometry), the segment builders (buildSegments  *)
(* of the strategy App and runSimulation of the first App) and the closure *)
(* detectors (checkCircuitComplete, isLoopClosed).                         *)
(*                                                                         *)
(* Numbers.  The engine works on JavaScript doubles.  The model keeps      *)
(* coordinates as whole numbers and computes every comparison the code     *)
(* makes exactly:                                                          *)
(*   - a path is a start point followed by steps whose lengths are whole   *)
(*     numbers (axis-parallel or Pythagorean), so Math.hypot of two        *)
(*     consecutive points is a whole number and sums of them are exact;    *)
(*   - a turn angle is compared with 160, 120 and 2 degrees through the    *)
(*     cross and dot product of the two directions;                        *)
(*   - a circumradius is kept as the exact fraction R^2 = n/d and compared *)
(*     through n and d, held as multi-digit naturals.                      *)
(* JavaScript indexes arrays from 0, TLA+ sequences from 1: At(s, i) is    *)
(* the code's s[i], and every index stored in a result is the code's.      *)
(***************************************************************************)
EXTENDS Integers, Sequences, FiniteSets, TLC

VARIABLES
    points,      \* the control-point array handed to the engine
    closed,      \* validateGeometry's second argument
    pc,          \* "ready", or the name of the operation that has run
    report,      \* what validateGeometry returned
    segments,    \* what the segment builder handed to the simulator
    loopClosed,  \* what the closure detector returned
    isCircuitComplete,  \* strategy App: the "circuit complete" flag
    circuitName,        \* strategy App: the circuit's name
    file,               \* the document last exported, or chosen for import
    alerted,            \* an alert() has been shown to the user
    splinePoints,       \* what getSplinePoints returned (smoothPointsRef)
    isSimulating,       \* a race is being played back
    raceProgress,       \* the car's progress, 0..100
    ghostProgress,      \* the ghost's progress, 0..100, or Undefined
    carPosition,        \* TrackOverlay: the car's render point, or Null
    ghostPosition,      \* TrackOverlay: the ghost's render point, or Null
    circuitLength,      \* what calculateCircuitLength returned
    exportedPoints,     \* history: the control points last exported
    meterCoords,        \* what mapping latLonToMeters over the points gave
    resolution,         \* the samples per span of the last rendering
    draggingPoint,      \* editor: index of the dragged point, or NoPoint
    pitStops,           \* strategy App: the planned pit stops
    totalLaps,          \* strategy App: the race's number of laps
    raceRun,            \* where the running runSimulation call is
    compareRun          \* where the running runComparison call is

\* The strategy App's state beyond its control points, and the editor's
\* playback state.
appVars == <<isCircuitComplete, circuitName, file, alerted>>
viewVars == <<splinePoints, isSimulating, raceProgress, ghostProgress,
              carPosition, ghostPosition>>
panelVars == <<circuitLength>>
historyVars == <<exportedPoints>>
sessionVars == <<meterCoords, resolution, draggingPoint, pitStops, totalLaps,
                 raceRun, compareRun>>

vars == <<points, closed, pc, report, segments, loopClosed,
          isCircuitComplete, circuitName, file, alerted,
          splinePoints, isSimulating, raceProgress, ghostProgress,
          carPosition, ghostPosition, circuitLength, exportedPoints,
          meterCoords, resolution, draggingPoint, pitStops, totalLaps,
          raceRun, compareRun>>

\* useState(undefined), useState(null)
Undefined == -1
Null == [null |-> TRUE]
NoFile == [kind |-> "none"]

\* The strategy App and the editor as mounted (part_001 lines 135-148,
\* TrackOverlay lines 100-103).
InitAppVars ==
    /\ isCircuitComplete = FALSE
    /\ circuitName = "Monaco GP"
    /\ file = NoFile
    /\ alerted = FALSE

InitViewVars ==
    /\ splinePoints = <<>>
    /\ isSimulating = FALSE
    /\ raceProgress = 0
    /\ ghostProgress = Undefined
    /\ carPosition = Null
    /\ ghostPosition = Null

\* ValidationPanel line 7: let totalLength = 0
InitPanelVars == circuitLength = 0 /\ exportedPoints = <<>>

\* Neither async handler is running.
Idle == [at |-> "idle"]

\* useState(5) for totalLaps, useState([]) for pitStops (part_001 lines
\* 151-154); useState(null) for draggingPoint (part_003 line 91).
DefaultLaps == 5

\* useState(null) for draggingPoint: no point is dragged.
NoPoint == -1

InitSessionVars ==
    /\ meterCoords = <<>>
    /\ resolution = 0
    /\ draggingPoint = NoPoint
    /\ pitStops = <<>>
    /\ totalLaps = DefaultLaps
    /\ raceRun = Idle
    /\ compareRun = Idle

----------------------------------------------------------------------------
(* Exact arithmetic beyond 32 bits: naturals as base-10000 digit sequences, *)
(* least significant digit first; <<>> is 0.                                *)

RECURSIVE BigFrom(_)
BigFrom(n) ==
    IF n = 0 THEN <<>> ELSE <<n % 10000>> \o BigFrom(n \div 10000)

RECURSIVE BigNorm(_)
BigNorm(a) ==
    IF a = <<>> THEN <<>>
    ELSE IF a[Len(a)] = 0 THEN BigNorm(SubSeq(a, 1, Len(a) - 1))
    ELSE a

RECURSIVE BigAddC(_, _, _)
BigAddC(a, b, c) ==
    IF a = <<>> /\ b = <<>> THEN BigFrom(c)
    ELSE LET x == IF a = <<>> THEN 0 ELSE Head(a)
             y == IF b = <<>> THEN 0 ELSE Head(b)
             s == x + y + c
         IN  <<s % 10000>>
                \o BigAddC(IF a = <<>> THEN <<>> ELSE Tail(a),
                           IF b = <<>> THEN <<>> ELSE Tail(b),
                           s \div 10000)

BigAdd(a, b) == BigNorm(BigAddC(a, b, 0))

RECURSIVE BigMulDigit(_, _, _)
BigMulDigit(a, m, c) ==
    IF a = <<>> THEN BigFrom(c)
    ELSE LET s == Head(a) * m + c
         IN  <<s % 10000>> \o BigMulDigit(Tail(a), m, s \div 10000)

RECURSIVE BigMul(_, _)
BigMul(a, b) ==
    IF a = <<>> \/ b = <<>> THEN <<>>
    ELSE BigAdd(BigMulDigit(a, Head(b), 0), <<0>> \o BigMul(a, Tail(b)))

RECURSIVE BigLessFrom(_, _, _)
BigLessFrom(a, b, k) ==
    IF k = 0 THEN FALSE
    ELSE IF a[k] # b[k] THEN a[k] < b[k]
    ELSE BigLessFrom(a, b, k - 1)

BigLess(a, b) ==
    LET x == BigNorm(a)
        y == BigNorm(b)
    IN  IF Len(x) # Len(y) THEN Len(x) < Len(y) ELSE BigLessFrom(x, y, Len(x))

Abs(n) == IF n < 0 THEN -n ELSE n

BigSq(n) == BigMul(BigFrom(Abs(n)), BigFrom(Abs(n)))

\* Integer part of the square root.
RECURSIVE ISqrtFrom(_, _)
ISqrtFrom(n, r) == IF (r + 1) * (r + 1) > n THEN r ELSE ISqrtFrom(n, r + 1)

RECURSIVE ISqrt(_)
ISqrt(n) ==
    IF n < 4 THEN ISqrtFrom(n, 0)
    ELSE LET h == 2 * ISqrt(n \div 4)
         IN  IF (h + 1) * (h + 1) <= n THEN h + 1 ELSE h

\* Math.hypot(dx, dy).  Exact whenever dx^2 + dy^2 is a square, which it is
\* for two consecutive points of every modelled path; for any other
\* argument it is the integer part, and `hypot < n` for a whole n is decided
\* by the integer part exactly as by the true value.
Hypot(dx, dy) == ISqrt(dx * dx + dy * dy)

Max(a, b) == IF a > b THEN a ELSE b

\* The code's s[i] (0-based).
At(s, i) == s[i + 1]

----------------------------------------------------------------------------
(* GeometryEngine.validateGeometry                                          *)

\* Thresholds of the validator.
SharpTurnDeg == 160
HairpinDeg == 120
StraightDeg == 2
MinTrackLength == 3000
MaxTrackLength == 8000

\* 10^9 * tan(180 - 160), 10^9 * tan(180 - 120) and 10^9 * tan(2) degrees,
\* cut after the ninth decimal: how the three angle thresholds are compared.
Tan20E9 == 363970234
Tan60E9 == 1732050807
Tan2E9 == 34920769

TanE9(deg) ==
    CASE deg = SharpTurnDeg -> Tan20E9
      [] deg = HairpinDeg -> Tan60E9
      [] deg = StraightDeg -> Tan2E9

\* Math.atan2(q.y - p.y, q.x - p.x), kept as the direction it is the angle
\* of.  Math.atan2(0, 0) is 0, the angle of the direction (1, 0).
Heading(p, q) ==
    IF q.x = p.x /\ q.y = p.y THEN <<1, 0>> ELSE <<q.x - p.x, q.y - p.y>>

Dot(u, v) == u[1] * v[1] + u[2] * v[2]
Cross(u, v) == u[1] * v[2] - u[2] * v[1]

\* diff = |angle1 - angle2| in degrees, folded into [0, 180] by
\* `if (diff > 180) diff = 360 - diff`, is the unsigned angle between the two
\* directions.  For an obtuse threshold, diff > deg says that the directions
\* point apart (dot < 0) and |cross| / |dot| < tan(180 - deg).
DiffAbove(u, v, deg) ==
    /\ Dot(u, v) < 0
    /\ BigLess(BigMul(BigFrom(Abs(Cross(u, v))), BigFrom(1000000000)),
               BigMul(BigFrom(TanE9(deg)), BigFrom(Abs(Dot(u, v)))))

\* For an acute threshold, diff < deg says dot > 0 and |cross| / dot < tan(deg).
DiffBelow(u, v, deg) ==
    /\ Dot(u, v) > 0
    /\ BigLess(BigMul(BigFrom(Abs(Cross(u, v))), BigFrom(1000000000)),
               BigMul(BigFrom(TanE9(deg)), BigFrom(Dot(u, v))))

\* Faulty variant of turnIssues: the 160-degree test is lost and every turn above
\* 120 degrees is critical.
turnIssuesAllCritical(u, v, i) ==
    IF DiffAbove(u, v, HairpinDeg)
    THEN << [type |-> "critical",
             message |-> <<"Impossible sharp turn at point", i>>,
             index |-> i] >>
    ELSE <<>>

\* Lines 83-87: the issue pushed for the triple that ends at index i.
turnIssues(u, v, i) ==
    IF DiffAbove(u, v, SharpTurnDeg)
    THEN << [type |-> "critical",
             message |-> <<"Impossible sharp turn at point", i>>,
             index |-> i] >>
    ELSE IF DiffAbove(u, v, HairpinDeg)
    THEN << [type |-> "warning",
             message |-> <<"Very tight hairpin at point", i>>,
             index |-> i] >>
    ELSE <<>>

\* Faulty variants of tooShort and tooLong: the bound itself counts as out of range.
tooShortInclusive(totalLength) == totalLength <= MinTrackLength
tooLongInclusive(totalLength) == totalLength >= MaxTrackLength

\* Lines 100-101: the length warnings, pushed after the walk.
tooShort(totalLength) == totalLength < MinTrackLength
tooLong(totalLength) == totalLength > MaxTrackLength

lengthIssues(totalLength) ==
    (IF tooShort(totalLength)
     THEN << [type |-> "warning",
              message |-> <<"Track too short for F1 standards (<3km)">>] >>
     ELSE <<>>)
    \o
    (IF tooLong(totalLength)
     THEN << [type |-> "warning",
              message |-> <<"Track too long for F1 standards (>8km)">>] >>
     ELSE <<>>)

\* Lines 89-97: the straight accounting of one loop iteration; w is the
\* walk's state before it, dist the length of the segment ending at i.
straightStep(w, pts, i, dist) ==
    IF i > 1
    THEN IF DiffBelow(Heading(At(pts, i - 2), At(pts, i - 1)),
                      Heading(At(pts, i - 1), At(pts, i)), StraightDeg)
         THEN [longestStraight |-> w.longestStraight,
               currentStraight |-> w.currentStraight + dist]
         ELSE [longestStraight |-> Max(w.longestStraight, w.currentStraight),
               currentStraight |-> 0]
    ELSE [longestStraight |-> w.longestStraight,
          currentStraight |-> w.currentStraight + dist]

\* Lines 67-98: the loop `for (let i = 1; i < points.length; i++)`.
RECURSIVE validateWalk(_, _, _)
validateWalk(pts, i, w) ==
    IF i >= Len(pts) THEN w
    ELSE LET dist == Hypot(At(pts, i).x - At(pts, i - 1).x,
                           At(pts, i).y - At(pts, i - 1).y)
             found == IF i > 1
                      THEN turnIssues(Heading(At(pts, i - 2), At(pts, i - 1)),
                                      Heading(At(pts, i - 1), At(pts, i)), i)
                      ELSE <<>>
             st == straightStep(w, pts, i, dist)
         IN  validateWalk(pts, i + 1,
                 [issues |-> w.issues \o found,
                  totalLength |-> w.totalLength + dist,
                  longestStraight |-> st.longestStraight,
                  currentStraight |-> st.currentStraight])

\* Faulty variant of makeReport: isValid does not look at the issues.
makeReportAlwaysValid(issues, stats) ==
    [isValid |-> TRUE, issues |-> issues, stats |-> stats]

\* The report: isValid, issues and stats (line 103).
makeReport(issues, stats) ==
    [isValid |-> Len(issues) = 0, issues |-> issues, stats |-> stats]

\* Faulty variant of validateGeometry: a turn that raised an issue is
\* recorded as the sharpest one (0 stands for "sharper than any straight").
validateGeometryRecordingTurns(pts, isClosed) ==
    LET w == validateWalk(pts, 1,
                 [issues |-> <<>>, totalLength |-> 0,
                  longestStraight |-> 0, currentStraight |-> 0])
        turned == \E k \in 1..Len(w.issues) : "index" \in DOMAIN w.issues[k]
    IN  makeReport(w.issues \o lengthIssues(w.totalLength),
                   [totalLength |-> w.totalLength,
                    sharpestTurn |-> IF turned THEN 0 ELSE 180,
                    longestStraight |-> w.longestStraight])

\* Lines 56-104.  stats.sharpestTurn is initialised to 180 (line 60) and
\* assigned nowhere else.
validateGeometry(pts, isClosed) ==
    LET w == validateWalk(pts, 1,
                 [issues |-> <<>>, totalLength |-> 0,
                  longestStraight |-> 0, currentStraight |-> 0])
    IN  makeReport(w.issues \o lengthIssues(w.totalLength),
                   [totalLength |-> w.totalLength,
                    sharpestTurn |-> 180,
                    longestStraight |-> w.longestStraight])


----------------------------------------------------------------------------
(* Inputs: paths drawn as a start point and a bounded number of steps.      *)

\* Most control points of an input path.
MaxPoints == 4

Pt(x, y) == [x |-> x, y |-> y]

\* The points reached from p by the steps st, p included.
RECURSIVE Trace(_, _)
Trace(p, st) ==
    IF st = <<>> THEN <<p>>
    ELSE <<p>> \o Trace([p EXCEPT !.x = p.x + Head(st)[1],
                                   !.y = p.y + Head(st)[2]], Tail(st))

StepSeqs(S, n) == UNION {[1..k -> S] : k \in 0..n}

PathsOf(S, start) ==
    {<<>>} \cup {Trace(start, st) : st \in StepSeqs(S, MaxPoints - 1)}

\* Steps of the validator's inputs, each of whole length: 1, 2999, 3000,
\* 5000, 61 (169.6 degrees off the x axis), 137 (140.0 degrees), 6613
\* (1.0 degree), a reversal, and the null step (a repeated point).
ValidateSteps ==
    { <<1, 0>>, <<2999, 0>>, <<3000, 0>>, <<3000, 4000>>,
      <<-60, 11>>, <<-105, 88>>, <<6612, 115>>, <<-1, 0>>, <<0, 0>> }

ValidatePaths == PathsOf(ValidateSteps, Pt(0, 0))

NoReport == makeReport(<<>>, [totalLength |-> 0, sharpestTurn |-> 180,
                              longestStraight |-> 0])

InitValidate ==
    /\ points \in ValidatePaths
    /\ closed \in BOOLEAN
    /\ pc = "ready"
    /\ report = NoReport
    /\ segments = <<>>
    /\ loopClosed = FALSE
    /\ InitAppVars
    /\ InitViewVars
    /\ InitPanelVars
    /\ InitSessionVars

\* ValidationPanel / any caller: validation = validateGeometry(points, closed)
CallValidateGeometry ==
    /\ pc = "ready"
    /\ pc' = "validateGeometry"
    /\ report' = validateGeometry(points, closed)
    /\ UNCHANGED <<historyVars, sessionVars, points, closed, segments, loopClosed>>
    /\ UNCHANGED <<historyVars, sessionVars, appVars, viewVars, panelVars>>

NextValidate == CallValidateGeometry

SpecValidate == InitValidate /\ [][NextValidate]_vars


----------------------------------------------------------------------------
(* Claims about validateGeometry, checked under SpecValidate.               *)

Validated == pc = "validateGeometry"

\* The positions in an issue list of the issues that carry index i.
IssuesAt(issues, i) ==
    {k \in 1..Len(issues) :
        "index" \in DOMAIN issues[k] /\ issues[k].index = i}

\* The positions of the length warnings with the given text.
LengthWarnings(issues, text) ==
    {k \in 1..Len(issues) :
        /\ "index" \notin DOMAIN issues[k]
        /\ issues[k].type = "warning"
        /\ issues[k].message = <<text>>}

ShortWarnings(r) ==
    LengthWarnings(r.issues, "Track too short for F1 standards (<3km)")
LongWarnings(r) ==
    LengthWarnings(r.issues, "Track too long for F1 standards (>8km)")

\* The unsigned angle between u and v exceeds deg (160 or 120), stated
\* through the cosine: dot < 0 and dot^2 > cos^2(deg) |u|^2 |v|^2, with
\* cos^2(160) = 0.883022222 and cos^2(120) = 1/4.
AngleExceeds(u, v, deg) ==
    LET c2 == IF deg = 160 THEN 883022222 ELSE 250000000
    IN  /\ Dot(u, v) < 0
        /\ BigLess(BigMul(BigFrom(c2),
                          BigMul(BigFrom(Dot(u, u)), BigFrom(Dot(v, v)))),
                   BigMul(BigSq(Dot(u, v)), BigFrom(1000000000)))

\* C1: the 'too short' warning is present (once) exactly when
\* stats.totalLength < 3000 and the 'too long' warning (once) exactly when
\* stats.totalLength > 8000; never both.
C1_LengthWarnings ==
    Validated =>
        /\ Cardinality(ShortWarnings(report))
             = (IF report.stats.totalLength < 3000 THEN 1 ELSE 0)
        /\ Cardinality(LongWarnings(report))
             = (IF report.stats.totalLength > 8000 THEN 1 ELSE 0)
        /\ ~(ShortWarnings(report) # {} /\ LongWarnings(report) # {})
        /\ report.stats.totalLength \in {3000, 8000}
             => ShortWarnings(report) = {} /\ LongWarnings(report) = {}
        /\ report.stats.totalLength = 2999 => ShortWarnings(report) # {}
        /\ report.stats.totalLength = 8001 => LongWarnings(report) # {}

\* A path of exactly 8000 (3000 + 5000) has run and got neither warning.
C1_Witness ==
    /\ Validated
    /\ points = <<Pt(0, 0), Pt(3000, 0), Pt(6000, 4000)>>
    /\ report.stats.totalLength = 8000
    /\ ShortWarnings(report) = {} /\ LongWarnings(report) = {}

C3_TurnIssuePerTriple ==
    Validated =>
        /\ \A i \in 2..(Len(points) - 1) :
              LET u == Heading(At(points, i - 2), At(points, i - 1))
                  v == Heading(At(points, i - 1), At(points, i))
                  at == IssuesAt(report.issues, i)
              IN  /\ AngleExceeds(u, v, 160) =>
                        /\ Cardinality(at) = 1
                        /\ \A k \in at : report.issues[k].type = "critical"
                  /\ (AngleExceeds(u, v, 120) /\ ~AngleExceeds(u, v, 160)) =>
                        /\ Cardinality(at) = 1
                        /\ \A k \in at : report.issues[k].type = "warning"
                  /\ ~AngleExceeds(u, v, 120) => at = {}
        /\ \A k \in 1..Len(report.issues) :
              "index" \in DOMAIN report.issues[k] =>
                  report.issues[k].index \in 2..(Len(points) - 1)

\* A 140.0-degree turn followed by a 169.6-degree turn: a warning, then a
\* critical issue.
C3_Witness ==
    /\ Validated
    /\ points = Trace(Pt(0, 0), << <<-105, 88>>, <<1, 0>>, <<-60, 11>> >>)
    /\ \E k \in IssuesAt(report.issues, 2) : report.issues[k].type = "warning"
    /\ \E k \in IssuesAt(report.issues, 3) : report.issues[k].type = "critical"

\* The length of segment k, from point k-1 to point k.
SegLen(pts, k) ==
    Hypot(At(pts, k).x - At(pts, k - 1).x, At(pts, k).y - At(pts, k - 1).y)

RECURSIVE RunLen(_, _, _)
RunLen(pts, a, b) ==
    IF a > b THEN 0 ELSE SegLen(pts, a) + RunLen(pts, a + 1, b)

\* Segments a..b are joined only by turn angles below 2 degrees.
IsStraightRun(pts, a, b) ==
    \A j \in a..(b - 1) :
        DiffBelow(Heading(At(pts, j - 1), At(pts, j)),
                  Heading(At(pts, j), At(pts, j + 1)), 2)

RECURSIVE MaxOf(_)
MaxOf(S) ==
    IF S = {} THEN 0
    ELSE LET x == CHOOSE y \in S : TRUE IN Max(x, MaxOf(S \ {x}))

LongestRun(pts) ==
    MaxOf({RunLen(pts, q[1], q[2]) :
             q \in {r \in (1..(Len(pts) - 1)) \X (1..(Len(pts) - 1)) :
                      r[1] <= r[2] /\ IsStraightRun(pts, r[1], r[2])}})

\* C4: stats.longestStraight is the greatest total length of a run of
\* consecutive segments joined only by turn angles below 2 degrees, the run
\* still open at the last point included.
C4_LongestStraight ==
    Validated => report.stats.longestStraight = LongestRun(points)

\* C5: the issue for a turn above 120 degrees at interior point m (the
\* middle point of m-1, m, m+1) carries index m and names point m, and
\* every turn issue is such an issue.
C5_IssueIndexIsTurnPoint ==
    Validated =>
        /\ \A m \in 1..(Len(points) - 2) :
              AngleExceeds(Heading(At(points, m - 1), At(points, m)),
                           Heading(At(points, m), At(points, m + 1)), 120)
                => \E k \in IssuesAt(report.issues, m) :
                       report.issues[k].message[2] = m
        /\ \A k \in 1..Len(report.issues) :
              "index" \in DOMAIN report.issues[k] =>
                  LET m == report.issues[k].index
                  IN  /\ m \in 1..(Len(points) - 2)
                      /\ AngleExceeds(
                             Heading(At(points, m - 1), At(points, m)),
                             Heading(At(points, m), At(points, m + 1)), 120)

\* C6: isValid is true exactly when the issues list is empty.
C6_ValidIffNoIssues ==
    Validated => (report.isValid <=> Len(report.issues) = 0)

\* A path of length 5000 with one gentle turn: valid, no issues.
C6_Witness ==
    /\ Validated
    /\ points = <<Pt(0, 0), Pt(3000, 4000)>>
    /\ report.isValid
    /\ report.issues = <<>>


----------------------------------------------------------------------------
(* Geodetic points.  A geodetic control point {lat, lng} is held in metres  *)
(* of arc from a reference point on the equator (one unit is 180/(pi R)     *)
(* degrees).  getDistanceMeters is the haversine great-circle distance; on  *)
(* the few hundred metres around the reference that the modelled points     *)
(* span it differs from the planar distance of the arc offsets by less than *)
(* one part in 10^9, and is modelled by it.                                 *)

IsGeo(p) == "lat" \in DOMAIN p

IsPlanarPath(pts) == IF Len(pts) = 0 THEN TRUE ELSE ~IsGeo(pts[1])

getDistanceMeters(lat1, lon1, lat2, lon2) == Hypot(lat2 - lat1, lon2 - lon1)

\* Faulty variant of latLonToMeters: the signs are given the other way round.
latLonToMetersMirrored(lat, lon, originLat, originLon) ==
    LET x == getDistanceMeters(originLat, originLon, originLat, lon)
        y == getDistanceMeters(originLat, originLon, lat, originLon)
    IN  [x |-> IF lon < originLon THEN x ELSE -x,
         y |-> IF lat < originLat THEN y ELSE -y]

\* Lines 29-38.
latLonToMeters(lat, lon, originLat, originLon) ==
    LET x == getDistanceMeters(originLat, originLon, originLat, lon)
        y == getDistanceMeters(originLat, originLon, lat, originLon)
    IN  [x |-> IF lon > originLon THEN x ELSE -x,
         y |-> IF lat > originLat THEN y ELSE -y]

----------------------------------------------------------------------------
(* Segment builders: calculateRadius, buildSegments (strategy App) and the  *)
(* segment loop of runSimulation (first App).                               *)

CornerRadiusLimit == 500
RadiusCap == 1000
PixelScale == 5

\* A radius is the non-negative number sqrt(n / d), n and d multi-digit
\* naturals, d > 0.
RadZero == [n |-> <<>>, d |-> <<1>>]
RadOfNat(c) == [n |-> BigSq(c), d |-> <<1>>]
RadIsZero(r) == BigNorm(r.n) = <<>>
\* r < c, r > c and r * k for naturals c, k
RadBelow(r, c) == BigLess(r.n, BigMul(BigSq(c), r.d))
RadAbove(r, c) == BigLess(BigMul(BigSq(c), r.d), r.n)
RadTimes(r, k) == [n |-> BigMul(r.n, BigSq(k)), d |-> r.d]
\* Math.min(r, c)
RadMin(r, c) == IF RadAbove(r, c) THEN RadOfNat(c) ELSE r

\* calculateRadius(p1, p2, p3).  With whole coordinates D is a whole number,
\* so |D| < 1e-5 says D = 0.  Ux = ux / D and Uy = uy / D, and
\* R = hypot(x1 - Ux, y1 - Uy) has R^2 = ((x1 D - ux)^2 + (y1 D - uy)^2) / D^2.
calculateRadius(p1, p2, p3) ==
    LET x1 == p1.x
        y1 == p1.y
        x2 == p2.x
        y2 == p2.y
        x3 == p3.x
        y3 == p3.y
        D == 2 * (x1 * (y2 - y3) + x2 * (y3 - y1) + x3 * (y1 - y2))
        ux == (x1 * x1 + y1 * y1) * (y2 - y3) + (x2 * x2 + y2 * y2) * (y3 - y1)
                + (x3 * x3 + y3 * y3) * (y1 - y2)
        uy == (x1 * x1 + y1 * y1) * (x3 - x2) + (x2 * x2 + y2 * y2) * (x1 - x3)
                + (x3 * x3 + y3 * y3) * (x2 - x1)
    IN  IF D = 0 THEN RadZero
        ELSE RadMin([n |-> BigAdd(BigSq(x1 * D - ux), BigSq(y1 * D - uy)),
                     d |-> BigSq(D)], RadiusCap)

\* Faulty variant of isCorner: the test radius > 0 is lost.
isCornerNoLowerBound(radius) == RadBelow(radius, CornerRadiusLimit)

\* const isCorner = radius > 0 && radius < 500
isCorner(radius) == ~RadIsZero(radius) /\ RadBelow(radius, CornerRadiusLimit)

\* buildSegments, lines 273-284: the points in metres.
meterPointsOf(circuitPoints) ==
    IF IsGeo(circuitPoints[1])
    THEN [k \in 1..Len(circuitPoints) |->
            latLonToMeters(circuitPoints[k].lat, circuitPoints[k].lng,
                           circuitPoints[1].lat, circuitPoints[1].lng)]
    ELSE circuitPoints

\* Faulty variant of segmentAt: the radius is taken over the segment and the
\* point after it (prev, curr, curr+1) instead of the point before it.
segmentAtLookingAhead(meterPoints, i) ==
    LET pPrev == At(meterPoints, i - 1)
        pCurr == At(meterPoints, i)
        pNext == At(meterPoints, IF i + 1 < Len(meterPoints) THEN i + 1 ELSE i)
        dist == Hypot(pCurr.x - pPrev.x, pCurr.y - pPrev.y)
        radius == calculateRadius(pPrev, pCurr, pNext)
    IN  [id |-> i,
         type |-> IF isCorner(radius) THEN "corner" ELSE "straight",
         length |-> dist,
         radius |-> IF isCorner(radius) THEN radius ELSE RadZero]

\* buildSegments, lines 287-308: the segment `seg-i`.
segmentAt(meterPoints, i) ==
    LET pPrev == At(meterPoints, i - 1)
        pCurr == At(meterPoints, i)
        dist == Hypot(pCurr.x - pPrev.x, pCurr.y - pPrev.y)
        radius == calculateRadius(At(meterPoints, Max(0, i - 2)), pPrev, pCurr)
    IN  [id |-> i,
         type |-> IF isCorner(radius) THEN "corner" ELSE "straight",
         length |-> dist,
         radius |-> IF isCorner(radius) THEN radius ELSE RadZero]

buildSegments(circuitPoints) ==
    IF Len(circuitPoints) < 2 THEN <<>>
    ELSE LET meterPoints == meterPointsOf(circuitPoints)
         IN  [i \in 1..(Len(meterPoints) - 1) |-> segmentAt(meterPoints, i)]

\* First App, runSimulation lines 44-64: the segment `seg-i`, its radius
\* scaled by 5.
simSegmentAt(circuitPoints, i) ==
    LET pPrev == At(circuitPoints, i - 1)
        pCurr == At(circuitPoints, i)
        dist == Hypot(pCurr.x - pPrev.x, pCurr.y - pPrev.y)
        radius == calculateRadius(At(circuitPoints, Max(0, i - 2)), pPrev, pCurr)
    IN  [id |-> i,
         type |-> IF isCorner(radius) THEN "corner" ELSE "straight",
         length |-> dist,
         radius |-> IF isCorner(radius) THEN RadTimes(radius, PixelScale)
                    ELSE RadZero]

\* First App, runSimulation lines 40-70: the segments of the payload, their
\* lengths scaled by 5.
simPayloadSegments(circuitPoints) ==
    [i \in 1..(Len(circuitPoints) - 1) |->
        [simSegmentAt(circuitPoints, i) EXCEPT !.length = @ * PixelScale]]


----------------------------------------------------------------------------
(* Inputs of the segment builders.                                          *)

\* Map editor, TrackOverlay mousedown lines 376-381: the point added at
\* latlng while activeTool is the drawing tool in use.
toolPoint(lat, lng, activeTool) ==
    [lat |-> lat, lng |-> lng,
     type |-> IF activeTool = "straight" THEN "straight" ELSE "corner"]

\* Steps of whole length 60, 61, 145, 5 and 0.  After (60, 0) the step
\* (60, 11) has radius 334, (3, 4) 39 and (144, 17) 873; after (60, 11) the
\* step (144, 17) has a radius above the cap; (60, 0) twice is collinear,
\* (-60, 0) a reversal, (0, 0) a repeated point.
SegmentSteps ==
    { <<60, 0>>, <<60, 11>>, <<144, 17>>, <<3, 4>>, <<-60, 0>>, <<0, 0>> }

\* How the points of an input were made: by the canvas editor (planar, no
\* tag), by the first map editor (geodetic, no tag), by the map editor with
\* tools (geodetic, tagged by toolPoint), or by importing the planar points
\* of a tagged drawing.
Systems == {"planar", "geo"}
Tools == {"none", "straight", "freehand"}

MakePoint(p, sys, tool) ==
    IF sys = "geo"
    THEN IF tool = "none" THEN [lat |-> p.y, lng |-> p.x]
         ELSE toolPoint(p.y, p.x, tool)
    ELSE IF tool = "none" THEN p
         ELSE [x |-> p.x, y |-> p.y,
               type |-> toolPoint(p.y, p.x, tool).type]

MakePath(path, sys, tool) ==
    IF Len(path) = 0 THEN <<>>
    ELSE [k \in 1..Len(path) |-> MakePoint(path[k], sys, tool)]

SegmentInputs ==
    {MakePath(path, sys, tool) :
        path \in PathsOf(SegmentSteps, Pt(0, 0)), sys \in Systems, tool \in Tools}

InitSegments ==
    /\ points \in SegmentInputs
    /\ closed = FALSE
    /\ pc = "ready"
    /\ report = NoReport
    /\ segments = <<>>
    /\ loopClosed = FALSE
    /\ InitAppVars
    /\ InitViewVars
    /\ InitPanelVars
    /\ InitSessionVars

\* Strategy App: exportCircuit, runSimulation, runComparison and
\* getRecommendation all take `buildSegments()` of the current points.
CallBuildSegments ==
    /\ pc = "ready"
    /\ pc' = "buildSegments"
    /\ segments' = buildSegments(points)
    /\ UNCHANGED <<historyVars, sessionVars, points, closed, report, loopClosed>>
    /\ UNCHANGED <<historyVars, sessionVars, appVars, viewVars, panelVars>>

\* First App, runSimulation lines 34-74.  Its editor is the canvas editor,
\* whose points are planar.  Fewer than 3 points: an alert, nothing is sent.
CallRunSimulation ==
    /\ pc = "ready"
    /\ IsPlanarPath(points)
    /\ IF Len(points) < 3
       THEN pc' = "alert" /\ segments' = <<>>
       ELSE pc' = "runSimulation" /\ segments' = simPayloadSegments(points)
    /\ UNCHANGED <<historyVars, sessionVars, points, closed, report, loopClosed>>
    /\ UNCHANGED <<historyVars, sessionVars, appVars, viewVars, panelVars>>

NextSegments == CallBuildSegments \/ CallRunSimulation

SpecSegments == InitSegments /\ [][NextSegments]_vars

----------------------------------------------------------------------------
(* Claims about the segment builders, checked under SpecSegments.           *)

Built == pc \in {"buildSegments", "runSimulation"}

\* The points the builder that ran measures: metres for buildSegments, the
\* planar points themselves for runSimulation.
Measured == IF pc = "buildSegments" THEN meterPointsOf(points) ELSE points

SqDist(p, q) == (q.x - p.x) * (q.x - p.x) + (q.y - p.y) * (q.y - p.y)

\* Twice the signed area of the triangle p1 p2 p3; 0 when they are
\* collinear or two of them coincide.
Area2(p1, p2, p3) ==
    (p2.x - p1.x) * (p3.y - p1.y) - (p2.y - p1.y) * (p3.x - p1.x)

\* The circumradius abc / (4 * area) of p1 p2 p3 is positive and below c:
\* a^2 b^2 c^2 < c^2 * (2 * Area2)^2.
CircumradiusBelow(p1, p2, p3, c) ==
    /\ Area2(p1, p2, p3) # 0
    /\ BigLess(BigMul(BigFrom(SqDist(p1, p2)),
                      BigMul(BigFrom(SqDist(p2, p3)), BigFrom(SqDist(p1, p3)))),
               BigMul(BigSq(c), BigSq(2 * Area2(p1, p2, p3))))

\* C7: the segment ending at point i is a corner exactly when the
\* circumradius of the points (max(0, i-2), i-1, i) is positive and below
\* 500, and straight otherwise; a collinear or coincident triple has radius
\* 0 and is straight.
C7_CornerIffRadiusBelow500 ==
    Built =>
        /\ Len(segments) = Max(0, Len(points) - 1)
        /\ \A i \in 1..Len(segments) :
              LET p1 == At(Measured, Max(0, i - 2))
                  p2 == At(Measured, i - 1)
                  p3 == At(Measured, i)
              IN  /\ segments[i].id = i
                  /\ segments[i].type \in {"corner", "straight"}
                  /\ segments[i].type = "corner"
                        <=> CircumradiusBelow(p1, p2, p3, 500)
                  /\ Area2(p1, p2, p3) = 0 =>
                        /\ segments[i].type = "straight"
                        /\ RadIsZero(segments[i].radius)

\* Radii 0 (first segment), 334 (corner) and above the cap (straight).
C7_Witness ==
    /\ pc = "buildSegments"
    /\ points = Trace(Pt(0, 0), << <<60, 0>>, <<60, 11>>, <<144, 17>> >>)
    /\ segments[1].type = "straight"
    /\ segments[2].type = "corner"
    /\ segments[3].type = "straight"

\* C8: every segment handed to the simulator has length >= 0, radius 0 when
\* straight and a radius in (0, 1000] when corner.
C8_SegmentInvariant ==
    Built =>
        \A i \in 1..Len(segments) :
            /\ segments[i].length >= 0
            /\ segments[i].type = "straight" => RadIsZero(segments[i].radius)
            /\ segments[i].type = "corner" =>
                  /\ ~RadIsZero(segments[i].radius)
                  /\ ~RadAbove(segments[i].radius, 1000)

HasTag(p, tag) == "type" \in DOMAIN p /\ p.type = tag

\* C9: a span whose two points carry the tag straight is never emitted as a
\* corner by buildSegments.
C9_TagDecidesType ==
    pc = "buildSegments" =>
        \A i \in 1..Len(segments) :
            (HasTag(points[i], "straight") /\ HasTag(points[i + 1], "straight"))
                => segments[i].type = "straight"


----------------------------------------------------------------------------
(* Closure detectors: checkCircuitComplete (strategy App) and isLoopClosed  *)
(* (canvas editors).                                                        *)

GeoTolerance == 40
PixelTolerance == 30
SnapDistance == 20
LoopTolerance == 30

\* Faulty variant of checkCircuitComplete: a distance equal to the tolerance closes
\* the loop.
checkCircuitCompleteInclusive(pts) ==
    IF Len(pts) < 3 THEN FALSE
    ELSE LET first == At(pts, 0)
             last == At(pts, Len(pts) - 1)
         IN  IF IsGeo(first)
             THEN getDistanceMeters(first.lat, first.lng, last.lat, last.lng)
                    <= GeoTolerance
             ELSE Hypot(first.x - last.x, first.y - last.y) <= PixelTolerance

checkCircuitComplete(pts) ==
    IF Len(pts) < 3 THEN FALSE
    ELSE LET first == At(pts, 0)
             last == At(pts, Len(pts) - 1)
         IN  IF IsGeo(first)
             THEN getDistanceMeters(first.lat, first.lng, last.lat, last.lng)
                    < GeoTolerance
             ELSE Hypot(first.x - last.x, first.y - last.y) < PixelTolerance

\* The canvas editor of the first App (snap distance 20).
isLoopClosed(pts) ==
    IF Len(pts) < 3 THEN FALSE
    ELSE LET first == At(pts, 0)
             last == At(pts, Len(pts) - 1)
         IN  Hypot(first.x - last.x, first.y - last.y) < SnapDistance

\* The canvas editor with race playback (tolerance 30).
isLoopClosed30(pts) ==
    IF Len(pts) < 3 THEN FALSE
    ELSE LET first == At(pts, 0)
             last == At(pts, Len(pts) - 1)
         IN  Hypot(first.x - last.x, first.y - last.y) < LoopTolerance

\* Inputs: a path from (0, 0) over up to MaxPoints - 2 other points to an
\* end point at distance 0, 19, 20, 29, 30, 39, 40 or 50 from the start;
\* planar, or geodetic.
ClosureEnds ==
    { Pt(0, 0), Pt(0, 19), Pt(0, 20), Pt(0, 29), Pt(18, 24), Pt(0, 39),
      Pt(24, 32), Pt(40, 0), Pt(30, 40), Pt(-50, 0) }

ClosureMids == { Pt(100, 0), Pt(100, 100), Pt(0, 0) }

ClosurePaths ==
    {<<>>, <<Pt(0, 0)>>}
        \cup {<<Pt(0, 0)>> \o mid \o <<e>> :
                 mid \in UNION {[1..k -> ClosureMids] : k \in 0..(MaxPoints - 2)},
                 e \in ClosureEnds}

ClosureInputs ==
    {MakePath(path, sys, "none") : path \in ClosurePaths, sys \in Systems}

InitClosure ==
    /\ points \in ClosureInputs
    /\ closed = FALSE
    /\ pc = "ready"
    /\ report = NoReport
    /\ segments = <<>>
    /\ loopClosed = FALSE
    /\ InitAppVars
    /\ InitViewVars
    /\ InitPanelVars
    /\ InitSessionVars

\* handlePointsChange, loadCircuit, importCircuit:
\* setIsCircuitComplete(checkCircuitComplete(points))
CallCheckCircuitComplete ==
    /\ pc = "ready"
    /\ pc' = "checkCircuitComplete"
    /\ loopClosed' = checkCircuitComplete(points)
    /\ UNCHANGED <<historyVars, sessionVars, points, closed, report, segments>>
    /\ UNCHANGED <<historyVars, sessionVars, appVars, viewVars, panelVars>>

\* The canvas editors' render and mouse-up: isLoopClosed(points), on their
\* planar points.
CallIsLoopClosed ==
    /\ pc = "ready"
    /\ IsPlanarPath(points)
    /\ pc' = "isLoopClosed"
    /\ loopClosed' = isLoopClosed(points)
    /\ UNCHANGED <<historyVars, sessionVars, points, closed, report, segments>>
    /\ UNCHANGED <<historyVars, sessionVars, appVars, viewVars, panelVars>>

CallIsLoopClosed30 ==
    /\ pc = "ready"
    /\ IsPlanarPath(points)
    /\ pc' = "isLoopClosed30"
    /\ loopClosed' = isLoopClosed30(points)
    /\ UNCHANGED <<historyVars, sessionVars, points, closed, report, segments>>
    /\ UNCHANGED <<historyVars, sessionVars, appVars, viewVars, panelVars>>

NextClosure ==
    CallCheckCircuitComplete \/ CallIsLoopClosed \/ CallIsLoopClosed30

SpecClosure == InitClosure /\ [][NextClosure]_vars

----------------------------------------------------------------------------
(* Claim about the closure detectors, checked under SpecClosure.            *)

ClosureChecked == pc \in {"checkCircuitComplete", "isLoopClosed", "isLoopClosed30"}

\* The squared distance of the first and the last point, in the units of
\* their coordinate system.
EndsSqDist(pts) ==
    LET f == pts[1]
        l == pts[Len(pts)]
    IN  IF IsGeo(f)
        THEN (f.lat - l.lat) * (f.lat - l.lat) + (f.lng - l.lng) * (f.lng - l.lng)
        ELSE SqDist(f, l)

\* The tolerance of the detector that ran, for the coordinate system of
\* the points: 40 m geodetic and 30 px planar for checkCircuitComplete, 20
\* and 30 px for the two isLoopClosed.
ToleranceUsed ==
    CASE pc = "checkCircuitComplete" ->
            (IF IsPlanarPath(points) THEN 30 ELSE 40)
      [] pc = "isLoopClosed" -> 20
      [] pc = "isLoopClosed30" -> 30

\* C10: the detector answers false below 3 points and otherwise true
\* exactly when the first and the last point are strictly closer than the
\* tolerance, whatever the points between them; a loop that ends on its
\* first point is closed, one that ends 50 units from it is open.
C10_ClosedIffEndsWithinTolerance ==
    ClosureChecked =>
        /\ Len(points) < 3 => ~loopClosed
        /\ Len(points) >= 3 =>
              /\ loopClosed
                   <=> EndsSqDist(points) < ToleranceUsed * ToleranceUsed
              /\ EndsSqDist(points) = 0 => loopClosed
              /\ EndsSqDist(points) = 2500 => ~loopClosed

\* The square loop that returns to its first point is found closed.
C10_Witness ==
    /\ pc = "checkCircuitComplete"
    /\ points = <<Pt(0, 0), Pt(100, 0), Pt(100, 100), Pt(0, 0)>>
    /\ loopClosed

----------------------------------------------------------------------------
(* Strategy App: the operations that change the control points.  The        *)
(* editor hands every new array to handlePointsChange; loadCircuit,         *)
(* loadTemplate, importCircuit and clearCircuit set the state themselves.   *)

HitRadius == 15
ClampLow == 50
ClampHigh == 800
CircleStart == 200
CircleScale == 10

\* handlePointsChange(newPoints), lines 203-206
handlePointsChange(newPoints) ==
    /\ points' = newPoints
    /\ isCircuitComplete' = checkCircuitComplete(newPoints)

\* points.findIndex(p => Math.hypot(p.x - x, p.y - y) < 15) !== -1
hitsPoint(pts, x, y) ==
    \E k \in 1..Len(pts) : Hypot(pts[k].x - x, pts[k].y - y) < HitRadius

\* Faulty variant of parse: the tag of a point is not read back.
parseWithoutType(text) ==
    [k \in {kv[1] : kv \in text} \ {"type"} |->
        (CHOOSE kv \in text : kv[1] = k)[2]]

\* JSON.stringify and JSON.parse of one value with fields: the text holds
\* each own field as a key and its value; parsing builds a plain object
\* from the keys of the text.
stringify(obj) == {<<k, obj[k]>> : k \in DOMAIN obj}
parse(text) ==
    [k \in {kv[1] : kv \in text} |-> (CHOOSE kv \in text : kv[1] = k)[2]]

stringifyPoints(pts) ==
    IF Len(pts) = 0 THEN <<>> ELSE [k \in 1..Len(pts) |-> stringify(pts[k])]
parsePoints(texts) ==
    IF Len(texts) = 0 THEN <<>> ELSE [k \in 1..Len(texts) |-> parse(texts[k])]

\* exportCircuit, lines 577-582: the text of the downloaded document
exportedFile(name, pts) ==
    [kind |-> "json", name |-> name, points |-> stringifyPoints(pts),
     segments |-> Len(buildSegments(pts))]

\* loadTemplate's fallback, lines 555-564: one point per segment on a
\* circle walk from (200, 200), clamped to the canvas, and the first point
\* again.  The walk is modelled for 1, 2 and 4 segments, whose angles are
\* multiples of a quarter turn (cos and sin are 0, 1 or -1 up to 1e-16).
quarterCos(i, n) ==
    LET q == (4 * i) \div n IN IF q = 0 THEN 1 ELSE IF q = 2 THEN -1 ELSE 0
quarterSin(i, n) ==
    LET q == (4 * i) \div n IN IF q = 1 THEN 1 ELSE IF q = 3 THEN -1 ELSE 0

clamp(v) == IF v < ClampLow THEN ClampLow ELSE IF v > ClampHigh THEN ClampHigh ELSE v

RECURSIVE circleWalk(_, _, _, _)
\* (x, y) after segments 0 .. i - 1, for i = 0 .. Len(segs)
circleWalk(segs, i, x, y) ==
    IF i >= Len(segs) THEN <<>>
    ELSE LET nx == x + quarterCos(i, Len(segs)) * (At(segs, i) \div CircleScale)
             ny == y + quarterSin(i, Len(segs)) * (At(segs, i) \div CircleScale)
         IN  <<Pt(clamp(nx), clamp(ny))>> \o circleWalk(segs, i + 1, nx, ny)

fallbackPoints(segs) ==
    LET walk == circleWalk(segs, 0, CircleStart, CircleStart)
    IN  Append(walk, walk[1])

\* Positions a click or a drag can reach, on the editor's grid of 24: two
\* far apart, and one 24 away from the first (inside the closing tolerance,
\* outside the hit radius).
AppPositions == { Pt(96, 96), Pt(288, 96), Pt(96, 120) }

\* localStorage 'startrack_circuits', as saveCircuit left it (3 points or
\* more each): a closed loop and an open line.
StoredCircuits ==
    [n \in {"Saved Loop", "Saved Line"} |->
        IF n = "Saved Loop"
        THEN <<Pt(96, 96), Pt(288, 96), Pt(288, 288), Pt(96, 96)>>
        ELSE <<Pt(96, 96), Pt(288, 96), Pt(480, 96)>>]

\* Files offered to importCircuit: text that is no JSON, the JSON value
\* null, documents without a points field, and documents with one.
ImportFiles ==
    { [kind |-> "text"],
      [kind |-> "null"],
      [kind |-> "json", name |-> "No Points"],
      [kind |-> "json", name |-> "", points |-> <<>>],
      [kind |-> "json",
       points |-> stringifyPoints(<<Pt(96, 96), Pt(288, 96), Pt(96, 120)>>)],
      exportedFile("Exported",
                   <<Pt(96, 96), Pt(288, 96), Pt(480, 96)>>) }

\* What the backend answers to loadTemplate: nothing (the fetch fails), a
\* document without segments, a template with preview points (a closed
\* loop), or segments only (1, 2 or 4 of them, 1000 long).
TemplateAnswers ==
    { [kind |-> "failure"],
      [kind |-> "noSegments"],
      [kind |-> "preview",
       preview_points |-> <<Pt(100, 100), Pt(300, 100), Pt(300, 300), Pt(100, 100)>>],
      [kind |-> "segments", segments |-> <<1000>>],
      [kind |-> "segments", segments |-> <<1000, 1000>>],
      [kind |-> "segments", segments |-> <<1000, 1000, 1000, 1000>>] }

InitApp ==
    /\ points = <<>>
    /\ closed = FALSE
    /\ pc = "ready"
    /\ report = NoReport
    /\ segments = <<>>
    /\ loopClosed = FALSE
    /\ InitAppVars
    /\ InitViewVars
    /\ InitPanelVars
    /\ InitSessionVars

engineVars == <<closed, report, segments, loopClosed, circuitLength>>

\* Canvas editor, handleMouseDown: a click that hits no point adds one.
AddPoint(p) ==
    /\ Len(points) < MaxPoints
    /\ ~hitsPoint(points, p.x, p.y)
    /\ handlePointsChange(Append(points, p))
    /\ pc' = "addPoint"
    /\ alerted' = FALSE
    /\ UNCHANGED <<historyVars, sessionVars, circuitName, file, engineVars, viewVars>>

\* Canvas editor, handleMouseMove while point i is dragged.
DragPoint(i, p) ==
    /\ i \in 0..(Len(points) - 1)
    /\ handlePointsChange([points EXCEPT ![i + 1] = p])
    /\ pc' = "dragPoint"
    /\ alerted' = FALSE
    /\ UNCHANGED <<historyVars, sessionVars, circuitName, file, engineVars, viewVars>>

\* clearCircuit, lines 623-630
clearCircuit ==
    /\ points' = <<>>
    /\ isCircuitComplete' = FALSE
    /\ raceProgress' = 0
    /\ pc' = "clearCircuit"
    /\ alerted' = FALSE
    /\ UNCHANGED <<historyVars, sessionVars, circuitName, file, engineVars, splinePoints, isSimulating,
                   ghostProgress, carPosition, ghostPosition>>

\* loadCircuit(name), lines 528-535
loadCircuit(name) ==
    /\ name \in DOMAIN StoredCircuits
    /\ points' = StoredCircuits[name]
    /\ circuitName' = name
    /\ isCircuitComplete' = checkCircuitComplete(StoredCircuits[name])
    /\ pc' = "loadCircuit"
    /\ alerted' = FALSE
    /\ UNCHANGED <<historyVars, sessionVars, file, engineVars, viewVars>>

\* loadTemplate(trackId), lines 538-573, with the backend's answer.  The
\* name becomes the template's, or the id.
loadTemplate(answer) ==
    /\ pc' = "loadTemplate"
    /\ alerted' = FALSE
    /\ IF answer.kind = "failure"
       THEN UNCHANGED <<historyVars, sessionVars, points, circuitName, isCircuitComplete>>
       ELSE /\ points' = IF answer.kind = "preview" THEN answer.preview_points
                         ELSE IF answer.kind = "segments"
                              THEN fallbackPoints(answer.segments)
                              ELSE points
            /\ circuitName' = "Template"
            /\ isCircuitComplete' = TRUE
    /\ UNCHANGED <<historyVars, sessionVars, file, engineVars, viewVars>>

\* importCircuit, reader.onload, lines 595-606
importCircuit(f) ==
    /\ file' = f
    /\ pc' = "importCircuit"
    /\ IF f.kind \in {"text", "null"}
       THEN /\ alerted' = TRUE
            /\ UNCHANGED <<historyVars, sessionVars, points, circuitName, isCircuitComplete>>
       ELSE IF "points" \in DOMAIN f
            THEN /\ points' = parsePoints(f.points)
                 /\ circuitName' = IF "name" \in DOMAIN f /\ f.name # ""
                                   THEN f.name ELSE "Imported Track"
                 /\ isCircuitComplete' = checkCircuitComplete(parsePoints(f.points))
                 /\ alerted' = FALSE
            ELSE /\ alerted' = FALSE
                 /\ UNCHANGED <<historyVars, sessionVars, points, circuitName, isCircuitComplete>>
    /\ UNCHANGED <<historyVars, sessionVars, engineVars, viewVars>>

NextApp ==
    \/ \E p \in AppPositions : AddPoint(p)
    \/ \E i \in 0..(MaxPoints - 1), p \in AppPositions : DragPoint(i, p)
    \/ clearCircuit
    \/ \E name \in DOMAIN StoredCircuits : loadCircuit(name)
    \/ \E answer \in TemplateAnswers : loadTemplate(answer)
    \/ \E f \in ImportFiles : importCircuit(f)

SpecApp == InitApp /\ [][NextApp]_vars

----------------------------------------------------------------------------
(* Claims about the strategy App, checked under SpecApp.                    *)

\* C11: after any sequence of operations that change the control points,
\* isCircuitComplete equals checkCircuitComplete of the current points; in
\* particular it is never true with fewer than 3 points.
C11_FlagFollowsDetector ==
    /\ isCircuitComplete = checkCircuitComplete(points)
    /\ (Len(points) < 3 => ~isCircuitComplete)

----------------------------------------------------------------------------
(* Circuit length: calculateCircuitLength, and the lengths the validator    *)
(* and buildSegments give for the same planar points.                       *)

RECURSIVE lengthWalkTaxicab(_, _, _)
\* Faulty variant of lengthWalk: the taxicab length |dx| + |dy| of a step.
lengthWalkTaxicab(pts, i, length) ==
    IF i >= Len(pts) THEN length
    ELSE lengthWalkTaxicab(pts, i + 1,
                           length + Abs(At(pts, i).x - At(pts, i - 1).x)
                                  + Abs(At(pts, i).y - At(pts, i - 1).y))

RECURSIVE lengthWalk(_, _, _)
\* calculateCircuitLength's loop from index i on, `length` so far
lengthWalk(pts, i, length) ==
    IF i >= Len(pts) THEN length
    ELSE lengthWalk(pts, i + 1,
                    length + Hypot(At(pts, i).x - At(pts, i - 1).x,
                                   At(pts, i).y - At(pts, i - 1).y))

\* Faulty variant of calculateCircuitLength: the loop is closed, as in the
\* line the code leaves commented out.
calculateCircuitLengthClosing(pts) ==
    IF Len(pts) = 0 THEN 0
    ELSE lengthWalk(pts, 1, 0)
           + Hypot(At(pts, 0).x - At(pts, Len(pts) - 1).x,
                   At(pts, 0).y - At(pts, Len(pts) - 1).y)

calculateCircuitLength(pts) == lengthWalk(pts, 1, 0)

\* Rigid motions of the plane that keep the lattice of multiples of 5: a
\* translation, a quarter turn, and the rotation by atan(4/3), whose
\* cosine and sine are 3/5 and 4/5.
Motions == {"translate", "quarterTurn", "rotate345"}

movePoint(p, motion) ==
    IF motion = "translate" THEN Pt(p.x + 35, p.y - 15)
    ELSE IF motion = "quarterTurn" THEN Pt(-p.y, p.x)
    ELSE Pt((3 * p.x - 4 * p.y) \div 5, (4 * p.x + 3 * p.y) \div 5)

movePoints(pts, motion) ==
    IF Len(pts) = 0 THEN <<>>
    ELSE [k \in 1..Len(pts) |-> movePoint(pts[k], motion)]

\* Steps of whole length 5, 5, 25, 5 and 0, whose images under the motions
\* have whole coordinates and whole lengths.
LengthSteps == { <<5, 0>>, <<0, 5>>, <<15, 20>>, <<-5, 0>>, <<0, 0>> }

LengthPaths == PathsOf(LengthSteps, Pt(5, 10))

InitLength ==
    /\ points \in LengthPaths
    /\ closed \in BOOLEAN
    /\ pc = "ready"
    /\ report = NoReport
    /\ segments = <<>>
    /\ loopClosed = FALSE
    /\ InitAppVars
    /\ InitViewVars
    /\ InitPanelVars
    /\ InitSessionVars

\* ValidationPanel lines 17-18 on the points in metres, and buildSegments
\* on the same points: the three lengths of one circuit.
MeasureCircuit ==
    /\ pc = "ready"
    /\ pc' = "measured"
    /\ circuitLength' = calculateCircuitLength(points)
    /\ report' = validateGeometry(points, closed)
    /\ segments' = buildSegments(points)
    /\ UNCHANGED <<historyVars, sessionVars, points, closed, loopClosed, appVars, viewVars>>

\* The same circuit somewhere else in the plane.
MoveCircuit(motion) ==
    /\ pc = "measured"
    /\ pc' = "moved"
    /\ points' = movePoints(points, motion)
    /\ UNCHANGED <<historyVars, sessionVars, closed, report, segments, loopClosed, appVars, viewVars,
                   panelVars>>

CallCalculateCircuitLength ==
    /\ pc = "moved"
    /\ pc' = "remeasured"
    /\ circuitLength' = calculateCircuitLength(points)
    /\ UNCHANGED <<historyVars, sessionVars, points, closed, report, segments, loopClosed, appVars,
                   viewVars>>

NextLength ==
    \/ MeasureCircuit
    \/ \E motion \in Motions : MoveCircuit(motion)
    \/ CallCalculateCircuitLength

SpecLength == InitLength /\ [][NextLength]_vars

----------------------------------------------------------------------------
(* Claims about the circuit length, checked under SpecLength.               *)

RECURSIVE SumSegmentLengths(_)
SumSegmentLengths(segs) ==
    IF segs = <<>> THEN 0 ELSE Head(segs).length + SumSegmentLengths(Tail(segs))

\* The squared distance from the last point back to the first.
ClosingSqDist(pts) == SqDist(pts[1], pts[Len(pts)])

\* C12: for every planar point sequence the validator's stats.totalLength,
\* calculateCircuitLength and the sum of buildSegments' segment lengths are
\* the same number, the sum of the distances between consecutive points,
\* without the closing segment, whether or not the closed flag is set.
C12_LengthsAgree ==
    pc = "measured" =>
        /\ report.stats.totalLength = circuitLength
        /\ SumSegmentLengths(segments) = circuitLength
        /\ circuitLength = RunLen(points, 1, Len(points) - 1)

\* A circuit of 3 points or more, flagged closed, whose ends are apart.
C12_Witness ==
    /\ pc = "measured"
    /\ closed
    /\ Len(points) >= 3
    /\ ClosingSqDist(points) > 0
    /\ circuitLength > 0
    /\ Len(segments) = Len(points) - 1

\* C20: calculateCircuitLength returns the same value for a point sequence
\* and for its image under a translation or a rotation of the plane.
C20_LengthInvariantUnderMotion ==
    [][pc = "moved" => circuitLength' = circuitLength]_vars

\* A path with a bend has been moved and measured again.
C20_Witness ==
    /\ pc = "remeasured"
    /\ Len(points) >= 3
    /\ Area2(points[1], points[2], points[3]) # 0
    /\ circuitLength > 0

----------------------------------------------------------------------------
(* Render points: getSplinePoints of the map and canvas editors (Catmull-   *)
(* Rom through all the points) and of the editor with drawing tools (a      *)
(* straight span after a point tagged 'straight', a curve span otherwise).  *)
(*                                                                          *)
(* Control points have whole coordinates (Leaflet's container points are    *)
(* rounded, the canvas snaps to its grid).  A sample's x and y are kept as  *)
(* reduced fractions <<n, d>>, its tangent (dx, dy) as whole numbers        *)
(* proportional to the code's, and its speed in thousandths.  The samples   *)
(* at t = 0 and at ratio = 1 are exact in doubles as they are here; the     *)
(* others are the exact values the doubles approximate.                     *)

RECURSIVE GCD(_, _)
GCD(a, b) == IF b = 0 THEN a ELSE GCD(b, a % b)

Frac(n, d) == LET g == GCD(Abs(n), d) IN <<n \div g, d \div g>>
Whole(v) == <<v, 1>>

SpeedOne == 1000
CurvatureCap == 800
CurvatureScale == 10
Tan008E9 == 80171105
MinSteps == 5
StepLength == 10

\* Math.atan2(dy, dx) as a direction; Math.atan2(0, 0) is 0.
tangentOf(p) == IF p.dx = 0 /\ p.dy = 0 THEN <<1, 0>> ELSE <<p.dx, p.dy>>

\* curvature = diff * 10 in thousandths, where diff is the folded angle
\* between the tangents of prev and p in radians.  Below the cap diff is
\* under 0.08 and is taken as its tangent, in steps of 0.001 (they differ
\* by less than 0.0002); at 0.08 and above the curvature is at least 0.8.
curvatureOf(prev, p) ==
    LET u == tangentOf(prev)
        v == tangentOf(p)
        dot == Dot(u, v)
        cross == Abs(Cross(u, v))
    IN  IF dot > 0 /\ BigLess(BigMul(BigFrom(cross), BigFrom(1000000000)),
                             BigMul(BigFrom(Tan008E9), BigFrom(dot)))
        THEN CurvatureScale * ((1000 * cross) \div dot)
        ELSE CurvatureCap

Min(a, b) == IF a < b THEN a ELSE b

\* Faulty variant of speedAt: the curvature is not capped.
speedAtUncapped(samples, i) ==
    IF i > 0 /\ i < Len(samples) - 1
    THEN LET c == curvatureOf(At(samples, i - 1), At(samples, i))
         IN  SpeedOne - (IF c >= CurvatureCap THEN 2 * CurvatureCap ELSE c)
    ELSE SpeedOne

\* speed = 1.0 - Math.min(curvature, 0.8) of the sample with index i
speedAt(samples, i) ==
    IF i > 0 /\ i < Len(samples) - 1
    THEN SpeedOne - Min(curvatureOf(At(samples, i - 1), At(samples, i)),
                        CurvatureCap)
    ELSE SpeedOne

\* The Catmull-Rom sample of the span p1 -> p2 at st = t / segs.  With
\* s = segs, the q's are the code's times s^3 and the dq's times s^2.
\* (The code's q3 is ttt - st and its dq3 is 3 tt - 1.)
curveSample(p0, p1, p2, p3, t, s) ==
    LET q0 == -(t * t * t) + 2 * t * t * s - t * s * s
        q1 == 3 * t * t * t - 5 * t * t * s + 2 * s * s * s
        q2 == -3 * t * t * t + 4 * t * t * s + t * s * s
        q3 == t * t * t - t * s * s
        dq0 == -3 * t * t + 4 * t * s - s * s
        dq1 == 9 * t * t - 10 * t * s
        dq2 == -9 * t * t + 8 * t * s + s * s
        dq3 == 3 * t * t - s * s
    IN  [x |-> Frac(p0.x * q0 + p1.x * q1 + p2.x * q2 + p3.x * q3, 2 * s * s * s),
         y |-> Frac(p0.y * q0 + p1.y * q1 + p2.y * q2 + p3.y * q3, 2 * s * s * s),
         dx |-> p0.x * dq0 + p1.x * dq1 + p2.x * dq2 + p3.x * dq3,
         dy |-> p0.y * dq0 + p1.y * dq1 + p2.y * dq2 + p3.y * dq3]

\* Faulty variant of pointsAtSpeedOne: the points are dropped.
pointsAtSpeedOneDropped(pts) == <<>>

\* points.map(p => ({...p, speed: 1.0}))
pointsAtSpeedOne(pts) ==
    IF Len(pts) = 0 THEN <<>>
    ELSE [k \in 1..Len(pts) |->
            [x |-> Whole(pts[k].x), y |-> Whole(pts[k].y), speed |-> SpeedOne]]

\* The padded array `pts` of the Catmull-Rom variants.
paddedPoints(pts, isClosed) ==
    LET n == Len(pts)
    IN  IF isClosed
        THEN <<pts[n - 1], pts[n]>> \o pts \o <<pts[1], pts[2]>>
        ELSE <<pts[1]>> \o pts \o <<pts[n]>>

\* The samples of the spans 1 .. pts.length - 3, before their speed is set.
catmullSamples(pts, segs) ==
    [j \in 1..((Len(pts) - 3) * segs) |->
        LET i == 1 + (j - 1) \div segs
            t == (j - 1) % segs
        IN  curveSample(At(pts, i - 1), At(pts, i), At(pts, i + 1),
                        At(pts, i + 2), t, segs)]

withSpeeds(samples) ==
    [j \in 1..Len(samples) |->
        [x |-> samples[j].x, y |-> samples[j].y,
         dx |-> samples[j].dx, dy |-> samples[j].dy,
         speed |-> speedAt(samples, j - 1)]]

\* {...last, speed: splinePoints[splinePoints.length-1]?.speed || 0}
endSample(last, samples) ==
    [x |-> Whole(last.x), y |-> Whole(last.y),
     speed |-> IF Len(samples) = 0 THEN 0 ELSE samples[Len(samples)].speed]

\* getSplinePoints of the map editor and of the canvas editors
getSplinePoints(pts, segs, isClosed) ==
    IF Len(pts) < 2 THEN pointsAtSpeedOne(pts)
    ELSE LET samples == withSpeeds(catmullSamples(paddedPoints(pts, isClosed), segs))
         IN  IF isClosed THEN samples
             ELSE Append(samples, endSample(pts[Len(pts)], samples))

\* Mixed mode, a straight span i from p1 to p2: steps + 1 samples, the
\* first of them only on the first span.
straightSpan(p1, p2, i) ==
    LET dist == Hypot(p2.x - p1.x, p2.y - p1.y)
        steps == Max(MinSteps, dist \div StepLength)
        first == IF i = 0 THEN 0 ELSE 1
    IN  [k \in 1..(steps + 1 - first) |->
            LET t == k - 1 + first
            IN  [x |-> Frac(p1.x * steps + (p2.x - p1.x) * t, steps),
                 y |-> Frac(p1.y * steps + (p2.y - p1.y) * t, steps),
                 dx |-> p2.x - p1.x, dy |-> p2.y - p1.y,
                 speed |-> SpeedOne]]

\* Mixed mode, a curve span i of loopPoints: segs samples without speed
\* (0 stands for the speed not set yet).
curveSpan(loopPoints, i, segs, isClosed) ==
    LET n == Len(loopPoints)
        p1 == At(loopPoints, i)
        p2 == At(loopPoints, i + 1)
        p0 == IF i > 0 THEN At(loopPoints, i - 1)
              ELSE IF isClosed THEN At(loopPoints, n - 2) ELSE p1
        p3 == IF i < n - 2 THEN At(loopPoints, i + 2)
              ELSE IF isClosed THEN At(loopPoints, 1) ELSE p2
    IN  [k \in 1..segs |->
            LET c == curveSample(p0, p1, p2, p3, k - 1, segs)
            IN  [x |-> c.x, y |-> c.y, dx |-> c.dx, dy |-> c.dy, speed |-> 0]]

RECURSIVE mixedSamples(_, _, _, _)
\* The samples of the spans i .. loopPoints.length - 2
mixedSamples(loopPoints, i, segs, isClosed) ==
    IF i >= Len(loopPoints) - 1 THEN <<>>
    ELSE (IF At(loopPoints, i).type = "straight"
          THEN straightSpan(At(loopPoints, i), At(loopPoints, i + 1), i)
          ELSE curveSpan(loopPoints, i, segs, isClosed))
            \o mixedSamples(loopPoints, i + 1, segs, isClosed)

\* The speed pass of the mixed mode: `if (p.speed === 1.0) continue`
withMixedSpeeds(samples) ==
    [j \in 1..Len(samples) |->
        IF samples[j].speed = SpeedOne THEN samples[j]
        ELSE [samples[j] EXCEPT !.speed = speedAt(samples, j - 1)]]

\* getSplinePoints of the editor with drawing tools
getSplinePointsMixed(pts, segs, isClosed) ==
    IF Len(pts) < 2 THEN pointsAtSpeedOne(pts)
    ELSE withMixedSpeeds(
             mixedSamples(IF isClosed THEN Append(pts, pts[1]) ELSE pts,
                          0, segs, isClosed))

----------------------------------------------------------------------------
(* The engine on the editor's points: inputs and calls.                     *)

\* Resolutions handed to getSplinePoints (the editors pass 20 or 24).
Resolutions == {1, 2}

\* Control points 100, 60 and 80 apart.
SplinePositions == { Pt(0, 0), Pt(60, 80), Pt(60, 0) }

SplinePaths ==
    UNION {[1..k -> SplinePositions] : k \in 0..MaxPoints}

\* How the points were drawn: by an editor without tools (no tag), with
\* the straight tool, with the freehand tool, or with the two in turn.
Drawings == {"none", "straight", "corner", "straightFirst", "cornerFirst"}

tagOf(drawing, k) ==
    IF drawing = "straight" THEN "straight"
    ELSE IF drawing = "corner" THEN "corner"
    ELSE IF (drawing = "straightFirst") = (k % 2 = 1) THEN "straight"
    ELSE "corner"

\* draw(), part_004 lines 143-149: {x, y, type} of every point
projectedPoints(path, drawing) ==
    IF Len(path) = 0 THEN <<>>
    ELSE IF drawing = "none" THEN [k \in 1..Len(path) |-> path[k]]
    ELSE [k \in 1..Len(path) |->
            [x |-> path[k].x, y |-> path[k].y, type |-> tagOf(drawing, k)]]

SplineInputs ==
    {projectedPoints(path, drawing) : path \in SplinePaths, drawing \in Drawings}

IsTagged(pts) == IF Len(pts) = 0 THEN TRUE ELSE "type" \in DOMAIN pts[1]

InitSpline ==
    /\ points \in SplineInputs
    /\ closed \in BOOLEAN
    /\ pc = "ready"
    /\ report = NoReport
    /\ segments = <<>>
    /\ loopClosed = FALSE
    /\ InitAppVars
    /\ InitViewVars
    /\ InitPanelVars
    /\ InitSessionVars

\* draw() of the map editor and of the canvas editors
CallGetSplinePoints(segs) ==
    /\ pc = "ready"
    /\ pc' = "getSplinePoints"
    /\ splinePoints' = getSplinePoints(points, segs, closed)
    /\ UNCHANGED <<historyVars, sessionVars, points, closed, report, segments, loopClosed, appVars,
                   isSimulating, raceProgress, ghostProgress, carPosition,
                   ghostPosition, panelVars>>

\* draw() of the editor with drawing tools
CallGetSplinePointsMixed(segs) ==
    /\ pc = "ready"
    /\ IsTagged(points)
    /\ pc' = "getSplinePointsMixed"
    /\ splinePoints' = getSplinePointsMixed(points, segs, closed)
    /\ UNCHANGED <<historyVars, sessionVars, points, closed, report, segments, loopClosed, appVars,
                   isSimulating, raceProgress, ghostProgress, carPosition,
                   ghostPosition, panelVars>>

\* calculateCircuitLength(points)
CallCircuitLength ==
    /\ pc = "ready"
    /\ pc' = "calculateCircuitLength"
    /\ circuitLength' = calculateCircuitLength(points)
    /\ UNCHANGED <<historyVars, sessionVars, points, closed, report, segments, loopClosed, appVars,
                   viewVars>>

NextSpline ==
    \/ \E segs \in Resolutions : CallGetSplinePoints(segs)
    \/ \E segs \in Resolutions : CallGetSplinePointsMixed(segs)
    \/ CallCircuitLength
    \/ CallBuildSegments
    \/ CallValidateGeometry

SpecSpline == InitSpline /\ [][NextSpline]_vars

----------------------------------------------------------------------------
(* Claims about the render points, checked under SpecSpline.                *)

Splined == pc \in {"getSplinePoints", "getSplinePointsMixed"}

\* The sample lies exactly on the control point.
SampleAt(sample, p) == sample.x = Whole(p.x) /\ sample.y = Whole(p.y)

\* C13: for an open path of 2 or more control points, in every
\* getSplinePoints variant and for every combination of tags, the first
\* sample is the first control point and the last sample is the last
\* control point.
C13_OpenPathEndsAtEndpoints ==
    (Splined /\ ~closed /\ Len(points) >= 2) =>
        /\ Len(splinePoints) >= 1
        /\ SampleAt(splinePoints[1], points[1])
        /\ SampleAt(splinePoints[Len(splinePoints)], points[Len(points)])

RECURSIVE PassesFrom(_, _, _, _)
\* The control points k, k + 1, ... have samples on them, in this order, at
\* indexes from `from` on.
PassesFrom(samples, from, pts, k) ==
    IF k > Len(pts) THEN TRUE
    ELSE LET hits == {j \in from..Len(samples) : SampleAt(samples[j], pts[k])}
         IN  IF hits = {} THEN FALSE
             ELSE PassesFrom(samples,
                             1 + (CHOOSE j \in hits : \A h \in hits : j <= h),
                             pts, k + 1)

\* C14: the samples pass exactly through every control point, in path
\* order, for every combination of straight and corner tags.
C14_PassesThroughControlPoints ==
    (Splined /\ Len(points) >= 2) => PassesFrom(splinePoints, 1, points, 1)

SpeedFloor == 200

C17_FewPointsNoThrow ==
    Len(points) < 2 =>
        /\ pc = "buildSegments" => segments = <<>>
        /\ Splined =>
              /\ Len(splinePoints) = Len(points)
              /\ \A k \in 1..Len(points) : SampleAt(splinePoints[k], points[k])
        /\ pc = "calculateCircuitLength" => circuitLength = 0
        /\ pc = "validateGeometry" => report.stats.totalLength = 0

\* getSplinePoints has run on a single control point.
C17_Witness ==
    /\ Len(points) = 1
    /\ Splined
    /\ Len(splinePoints) = 1

----------------------------------------------------------------------------
(* TrackOverlay: the car and ghost positions follow the race progress.      *)
(* The effect of lines 100-117 runs after every change of raceProgress,     *)
(* isSimulating or ghostProgress, on the render points of the last draw.    *)

\* Faulty variant of positionIndex: the point count instead of the last index.
positionIndexByCount(progress, pointCount) == (progress * pointCount) \div 100

\* Math.floor((progress / 100) * (smoothPointsRef.current.length - 1))
positionIndex(progress, pointCount) == (progress * (pointCount - 1)) \div 100

\* `const point = list[Math.min(index, list.length - 1)];
\*  if (point) setPosition(point)`: the new position, given the old one.
positionAt(list, progress, old) ==
    LET index == Min(positionIndex(progress, Len(list)), Len(list) - 1)
    IN  IF index >= 0 /\ index < Len(list) THEN At(list, index) ELSE old

\* The effect's result for the car and for the ghost.
carAfterSync(list, simulating, race, ghost, old) ==
    IF (simulating \/ ghost # Undefined) /\ Len(list) > 0
    THEN IF simulating THEN positionAt(list, race, old) ELSE old
    ELSE IF ~simulating /\ ghost = Undefined THEN Null ELSE old

ghostAfterSync(list, simulating, race, ghost, old) ==
    IF (simulating \/ ghost # Undefined) /\ Len(list) > 0
    THEN IF ghost # Undefined THEN positionAt(list, ghost, old) ELSE old
    ELSE IF ~simulating /\ ghost = Undefined THEN Null ELSE old

\* The effect, after the props have taken their new values.
syncCarPositions ==
    /\ carPosition' = carAfterSync(splinePoints', isSimulating', raceProgress',
                                   ghostProgress', carPosition)
    /\ ghostPosition' = ghostAfterSync(splinePoints', isSimulating',
                                       raceProgress', ghostProgress',
                                       ghostPosition)

\* Progress values of a race: Math.min(100, ...) of a non-negative number.
Progresses == {0, 1, 33, 50, 99, 100}

\* Circuits on the overlay: none, one point, an open pair, a closed triangle.
PlaybackCircuits ==
    { <<>>, <<Pt(0, 0)>>, <<Pt(0, 0), Pt(60, 80)>>,
      <<Pt(0, 0), Pt(60, 80), Pt(60, 0), Pt(0, 0)>> }

InitPlayback ==
    /\ points \in PlaybackCircuits
    /\ closed = checkCircuitComplete(points)
    /\ pc = "ready"
    /\ report = NoReport
    /\ segments = <<>>
    /\ loopClosed = FALSE
    /\ InitAppVars
    /\ InitViewVars
    /\ InitPanelVars
    /\ InitSessionVars

\* draw(), lines 150-153: the render points are replaced when there are 2
\* control points or more.
Draw(segs) ==
    /\ Len(points) > 1
    /\ splinePoints' = getSplinePoints(points, segs, closed)
    /\ pc' = "draw"
    /\ UNCHANGED <<historyVars, sessionVars, points, closed, report, segments, loopClosed, appVars,
                   isSimulating, raceProgress, ghostProgress, carPosition,
                   ghostPosition, panelVars>>

\* runSimulation, lines 361-363
StartRace ==
    /\ ~isSimulating
    /\ isSimulating' = TRUE
    /\ raceProgress' = 0
    /\ ghostProgress' = Undefined
    /\ pc' = "startRace"
    /\ UNCHANGED <<historyVars, sessionVars, points, closed, report, segments, loopClosed, appVars,
                   splinePoints, panelVars>>
    /\ syncCarPositions

\* runSimulation, line 390: setRaceProgress(progress)
RaceTick(progress) ==
    /\ isSimulating
    /\ ghostProgress = Undefined
    /\ raceProgress' = progress
    /\ pc' = "raceTick"
    /\ UNCHANGED <<historyVars, sessionVars, points, closed, report, segments, loopClosed, appVars,
                   splinePoints, isSimulating, ghostProgress, panelVars>>
    /\ syncCarPositions

\* runComparison, line 430: setIsSimulating(true).  Its button stays
\* enabled during a race.
StartComparison ==
    /\ isSimulating' = TRUE
    /\ pc' = "startComparison"
    /\ UNCHANGED <<historyVars, sessionVars, points, closed, report, segments, loopClosed, appVars,
                   splinePoints, raceProgress, ghostProgress, panelVars>>
    /\ syncCarPositions

\* runComparison, lines 503-504
ComparisonTick(progA, progB) ==
    /\ isSimulating
    /\ pc \in {"startComparison", "comparisonTick"}
    /\ raceProgress' = progA
    /\ ghostProgress' = progB
    /\ pc' = "comparisonTick"
    /\ UNCHANGED <<historyVars, sessionVars, points, closed, report, segments, loopClosed, appVars,
                   splinePoints, isSimulating, panelVars>>
    /\ syncCarPositions

\* The race or the comparison ends: lines 413 and 507-508
FinishRace ==
    /\ isSimulating
    /\ isSimulating' = FALSE
    /\ ghostProgress' = Undefined
    /\ pc' = "finishRace"
    /\ UNCHANGED <<historyVars, sessionVars, points, closed, report, segments, loopClosed, appVars,
                   splinePoints, raceProgress, panelVars>>
    /\ syncCarPositions

NextPlayback ==
    \/ \E segs \in Resolutions : Draw(segs)
    \/ StartRace
    \/ \E progress \in Progresses : RaceTick(progress)
    \/ StartComparison
    \/ \E progA \in Progresses, progB \in Progresses : ComparisonTick(progA, progB)
    \/ FinishRace

SpecPlayback == InitPlayback /\ [][NextPlayback]_vars

----------------------------------------------------------------------------
(* Claim about the car and ghost positions, checked under SpecPlayback.     *)

\* The position `now` was looked up for `progress` in the list: there are
\* render points, the index floor(progress / 100 * (pointCount - 1)) is
\* within [0, pointCount - 1], and `now` is the point at that index.
LookedUp(list, progress, now) ==
    /\ Len(list) > 0
    /\ LET index == (progress * (Len(list) - 1)) \div 100
       IN  /\ index >= 0
           /\ index <= Len(list) - 1
           /\ now = list[index + 1]

\* C16: whenever the car or ghost position is set, the index used is
\* floor(progress / 100 * (pointCount - 1)), it lies within
\* [0, pointCount - 1] for every progress in [0, 100], the render-point list
\* is not empty, and the position is the element of the list at that index.
C16_PositionWithinRenderPoints ==
    [][/\ (carPosition' # carPosition /\ carPosition' # Null)
            => LookedUp(splinePoints', raceProgress', carPosition')
       /\ (ghostPosition' # ghostPosition /\ ghostPosition' # Null)
            => LookedUp(splinePoints', ghostProgress', ghostPosition')
       /\ (Len(splinePoints') = 0 /\ (isSimulating' \/ ghostProgress' # Undefined))
            => (carPosition' = carPosition /\ ghostPosition' = ghostPosition)]_vars

\* The car is on the last render point at the end of the race, the ghost
\* half way.
C16_Witness ==
    /\ isSimulating
    /\ raceProgress = 100
    /\ ghostProgress = 50
    /\ Len(splinePoints) >= 4
    /\ carPosition = splinePoints[Len(splinePoints)]
    /\ ghostPosition = splinePoints[1 + (Len(splinePoints) - 1) \div 2]

----------------------------------------------------------------------------
(* Export and import of a circuit document.                                 *)

\* Circuits to export: drawn on the canvas, on the map, and on the map
\* with the drawing tools (tagged).
ExchangeCircuits ==
    { <<>>,
      <<Pt(96, 96), Pt(288, 96), Pt(96, 120)>>,
      MakePath(<<Pt(0, 0), Pt(60, 0), Pt(60, 80), Pt(0, 0)>>, "geo", "none"),
      MakePath(<<Pt(0, 0), Pt(60, 0), Pt(60, 80)>>, "geo", "straight"),
      MakePath(<<Pt(0, 0), Pt(60, 0), Pt(60, 80), Pt(0, 3)>>, "geo", "freehand") }

InitExchange ==
    /\ points \in ExchangeCircuits
    /\ closed = FALSE
    /\ pc = "ready"
    /\ report = NoReport
    /\ segments = <<>>
    /\ loopClosed = FALSE
    /\ isCircuitComplete = checkCircuitComplete(points)
    /\ circuitName \in {"Monaco GP", ""}
    /\ file = NoFile
    /\ alerted = FALSE
    /\ InitViewVars
    /\ InitPanelVars
    /\ InitSessionVars

\* exportCircuit, lines 576-588: the document is downloaded.
exportCircuit ==
    /\ file' = exportedFile(circuitName, points)
    /\ exportedPoints' = points
    /\ pc' = "exportCircuit"
    /\ alerted' = FALSE
    /\ UNCHANGED <<sessionVars, points, circuitName, isCircuitComplete, engineVars,
                   viewVars>>

\* The editor replaces the circuit by another one.
ReplaceCircuit(newPoints) ==
    /\ handlePointsChange(newPoints)
    /\ pc' = "replaceCircuit"
    /\ alerted' = FALSE
    /\ UNCHANGED <<historyVars, sessionVars, circuitName, file, engineVars, viewVars>>

NextExchange ==
    \/ exportCircuit
    \/ \E newPoints \in ExchangeCircuits : ReplaceCircuit(newPoints)
    \/ clearCircuit
    \/ (file # NoFile /\ importCircuit(file))
    \/ \E f \in ImportFiles : importCircuit(f)

SpecExchange == InitExchange /\ [][NextExchange]_vars

----------------------------------------------------------------------------
(* Claims about import and export.                                          *)

\* The file is not a document with points: it fails to parse, or it has
\* no points field.
Malformed(f) == f.kind \in {"text", "null"} \/ "points" \notin DOMAIN f

\* C18: importing a document that fails to parse, or that parses but has
\* no points field, produces a user-visible error and leaves circuitPoints,
\* circuitName and isCircuitComplete unchanged.  (Checked under SpecApp.)
C18_MalformedImportRejected ==
    [][(pc' = "importCircuit" /\ Malformed(file')) =>
          /\ alerted'
          /\ points' = points
          /\ circuitName' = circuitName
          /\ isCircuitComplete' = isCircuitComplete]_vars

----------------------------------------------------------------------------
(* Claims about the report's statistics, checked under SpecValidate.        *)

\* C30: validateGeometry never updates stats.sharpestTurn: the report
\* carries 180 for every input, however sharp the turns of the path are.
C30_SharpestTurnNeverUpdated ==
    Validated => report.stats.sharpestTurn = 180

\* A path with a turn flagged as impossible was validated.
C30_Witness ==
    /\ Validated
    /\ \E k \in 1..Len(report.issues) :
          /\ "index" \in DOMAIN report.issues[k]
          /\ report.issues[k].type = "critical"
    /\ report.stats.sharpestTurn = 180

----------------------------------------------------------------------------
(* Claims about the first segment, checked under SpecSegments.              *)

\* C29: for every sequence of at least 2 points, both segment builders give
\* seg-1 the type straight and the radius 0, whatever the path does at its
\* start: its radius is taken over (p0, p0, p1).
C29_FirstSegmentStraight ==
    (Built /\ Len(points) >= 2) =>
        /\ segments[1].id = 1
        /\ segments[1].type = "straight"
        /\ RadIsZero(segments[1].radius)

\* Segments were built for a path whose second segment is a corner.
C29_Witness ==
    /\ Built
    /\ Len(points) >= 3
    /\ segments[2].type = "corner"
    /\ segments[1].type = "straight"
    /\ RadIsZero(segments[1].radius)

----------------------------------------------------------------------------
(* The projection to metres.  ValidationPanel and buildSegments map         *)
(* latLonToMeters over the geodetic control points, with the first point as *)
(* the origin.                                                              *)

\* Steps east, west, north, south, north-east, south-west, and none.
ProjectSteps ==
    { <<60, 0>>, <<-60, 0>>, <<0, 11>>, <<0, -11>>, <<3, 4>>, <<-3, -4>>,
      <<0, 0>> }

\* Geodetic paths around the reference point, the first point their origin.
ProjectInputs ==
    {MakePath(path, "geo", "none") : path \in PathsOf(ProjectSteps, Pt(0, 0))}

InitProject ==
    /\ points \in ProjectInputs
    /\ closed = FALSE
    /\ pc = "ready"
    /\ report = NoReport
    /\ segments = <<>>
    /\ loopClosed = FALSE
    /\ InitAppVars
    /\ InitViewVars
    /\ InitPanelVars
    /\ InitSessionVars

\* points.map(p => latLonToMeters(p.lat, p.lng, origin.lat, origin.lng))
CallLatLonToMeters ==
    /\ pc = "ready"
    /\ Len(points) >= 1
    /\ meterCoords' = meterPointsOf(points)
    /\ pc' = "latLonToMeters"
    /\ UNCHANGED <<historyVars, resolution, draggingPoint, pitStops, totalLaps,
                   raceRun, compareRun, points, engineVars, appVars, viewVars>>

NextProject == CallLatLonToMeters

SpecProject == InitProject /\ [][NextProject]_vars

\* C22: latLonToMeters returns x > 0 exactly when the point's longitude
\* exceeds the origin's and x <= 0 otherwise, y likewise for the latitude;
\* the origin is mapped onto (0, 0).
C22_ProjectionSigns ==
    pc = "latLonToMeters" =>
        /\ Len(meterCoords) = Len(points)
        /\ \A k \in 1..Len(points) :
              /\ (meterCoords[k].x > 0) <=> (points[k].lng > points[1].lng)
              /\ (meterCoords[k].x <= 0) <=> ~(points[k].lng > points[1].lng)
              /\ (meterCoords[k].y > 0) <=> (points[k].lat > points[1].lat)
              /\ (meterCoords[k].y <= 0) <=> ~(points[k].lat > points[1].lat)
        /\ meterCoords[1] = Pt(0, 0)

\* A path with points east, west, north and south of its origin, and one
\* on the origin's meridian, was projected.
C22_Witness ==
    /\ pc = "latLonToMeters"
    /\ \E k \in 1..Len(points) : points[k].lng > points[1].lng /\ meterCoords[k].x > 0
    /\ \E k \in 1..Len(points) : points[k].lng < points[1].lng /\ meterCoords[k].x < 0
    /\ \E k \in 2..Len(points) : points[k].lng = points[1].lng /\ meterCoords[k].x = 0
    /\ \E k \in 1..Len(points) : points[k].lat < points[1].lat /\ meterCoords[k].y < 0

----------------------------------------------------------------------------
(* Rendering twice.  draw() hands the editor's own array of control points  *)
(* to getSplinePoints at every render.                                      *)

\* Faulty variant of pointsAfterSpline: the padding is done on the caller's
\* array itself (`const pts = points`).
pointsAfterSplineAliased(pts, isClosed) ==
    IF Len(pts) < 2 THEN pts ELSE paddedPoints(pts, isClosed)

\* The caller's array once getSplinePoints has returned.  The Catmull-Rom
\* variants pad a copy (`const pts = [...points]`), the mixed mode reads
\* `points` or the copy `[...points, points[0]]`; the samples are new
\* objects, and `{...p}`, `{...last}` copy the control points they use.
pointsAfterSpline(pts, isClosed) == pts

InitRender == InitSpline

\* draw(): getSplinePoints(points, segs, closed)
RenderTrack(segs) ==
    /\ pc = "ready"
    /\ pc' = "getSplinePoints"
    /\ resolution' = segs
    /\ splinePoints' = getSplinePoints(points, segs, closed)
    /\ points' = pointsAfterSpline(points, closed)
    /\ UNCHANGED <<historyVars, meterCoords, draggingPoint, pitStops, totalLaps,
                   raceRun, compareRun, engineVars, appVars, isSimulating,
                   raceProgress, ghostProgress, carPosition, ghostPosition>>

\* draw() of the editor with drawing tools
RenderTrackMixed(segs) ==
    /\ pc = "ready"
    /\ IsTagged(points)
    /\ pc' = "getSplinePointsMixed"
    /\ resolution' = segs
    /\ splinePoints' = getSplinePointsMixed(points, segs, closed)
    /\ points' = points
    /\ UNCHANGED <<historyVars, meterCoords, draggingPoint, pitStops, totalLaps,
                   raceRun, compareRun, engineVars, appVars, isSimulating,
                   raceProgress, ghostProgress, carPosition, ghostPosition>>

\* The next draw() of the same editor, with the same resolution and flag.
RenderTrackAgain ==
    /\ pc \in {"getSplinePoints", "getSplinePointsAgain"}
    /\ pc' = "getSplinePointsAgain"
    /\ splinePoints' = getSplinePoints(points, resolution, closed)
    /\ points' = pointsAfterSpline(points, closed)
    /\ UNCHANGED <<historyVars, sessionVars, engineVars, appVars, isSimulating,
                   raceProgress, ghostProgress, carPosition, ghostPosition>>

RenderTrackMixedAgain ==
    /\ pc \in {"getSplinePointsMixed", "getSplinePointsMixedAgain"}
    /\ pc' = "getSplinePointsMixedAgain"
    /\ splinePoints' = getSplinePointsMixed(points, resolution, closed)
    /\ points' = points
    /\ UNCHANGED <<historyVars, sessionVars, engineVars, appVars, isSimulating,
                   raceProgress, ghostProgress, carPosition, ghostPosition>>

NextRender ==
    \/ \E segs \in Resolutions : RenderTrack(segs)
    \/ \E segs \in Resolutions : RenderTrackMixed(segs)
    \/ RenderTrackAgain
    \/ RenderTrackMixedAgain

SpecRender == InitRender /\ [][NextRender]_vars

Rendered ==
    pc \in {"getSplinePoints", "getSplinePointsMixed"}
RenderedAgain ==
    pc \in {"getSplinePointsAgain", "getSplinePointsMixedAgain"}

C23_ClosedLoopSampledOnce ==
    ((Rendered \/ RenderedAgain) /\ closed /\ Len(points) >= 3) =>
        /\ Len(splinePoints) = Len(points) * resolution
        /\ \A k \in 1..Len(points) :
              SampleAt(splinePoints[(k - 1) * resolution + 1], points[k])

----------------------------------------------------------------------------
(* Claims about the drawing tools, checked under SpecRender.                *)

\* The samples after the first `o` are those of a linear interpolation of
\* span i, from p1 to p2.
LinearAt(samples, o, p1, p2, i) ==
    LET line == straightSpan(p1, p2, i)
    IN  /\ Len(samples) >= o + Len(line)
        /\ \A k \in 1..Len(line) :
              /\ samples[o + k].x = line[k].x
              /\ samples[o + k].y = line[k].y
              /\ samples[o + k].dx = line[k].dx
              /\ samples[o + k].dy = line[k].dy

RECURSIVE linearSpans(_, _, _, _, _)
\* The spans i, i + 1, ... of pts (span i runs from point i to point i + 1,
\* counted from 0) that the samples after the first `o` render by linear
\* interpolation; a span that is not linear holds segs samples.
linearSpans(samples, o, pts, i, segs) ==
    IF i >= Len(pts) - 1 THEN {}
    ELSE IF LinearAt(samples, o, At(pts, i), At(pts, i + 1), i)
    THEN {i} \cup linearSpans(samples,
                     o + Len(straightSpan(At(pts, i), At(pts, i + 1), i)),
                     pts, i + 1, segs)
    ELSE linearSpans(samples, o + segs, pts, i + 1, segs)

\* The editor adds no point within the hit radius of another one, so every
\* drawn span has a length.
DrawnSpans(pts) ==
    \A i \in 1..(Len(pts) - 1) : pts[i].x # pts[i + 1].x \/ pts[i].y # pts[i + 1].y

\* C24: a span drawn with the straight tool, that is a span ending at a
\* point that was added while the straight tool was active, is the span
\* rendered by linear interpolation; a span drawn with the curve tool is
\* never rendered linear because of another point's tag.
C24_StraightToolSpanIsLinear ==
    (/\ pc \in {"getSplinePointsMixed", "getSplinePointsMixedAgain"}
     /\ Len(points) >= 2
     /\ DrawnSpans(points)) =>
        \A i \in 0..(Len(points) - 2) :
            (i \in linearSpans(splinePoints, 0, points, 0, resolution))
                <=> (At(points, i + 1).type = "straight")

----------------------------------------------------------------------------
(* The pit-stop plan of the strategy App.                                   *)

\* Race lengths the plan is edited under; the length stays as it is while
\* stops are added and removed.
MaxLaps == 7
LapCounts == 1..MaxLaps

InitPit ==
    /\ points = <<>>
    /\ closed = FALSE
    /\ pc = "ready"
    /\ report = NoReport
    /\ segments = <<>>
    /\ loopClosed = FALSE
    /\ InitAppVars
    /\ InitViewVars
    /\ InitPanelVars
    /\ meterCoords = <<>>
    /\ resolution = 0
    /\ draggingPoint = NoPoint
    /\ pitStops = <<>>
    /\ totalLaps \in LapCounts
    /\ raceRun = Idle
    /\ compareRun = Idle

\* addPitStop, lines 611-615
addPitStop ==
    /\ ~(Len(pitStops) >= totalLaps - 1)
    /\ LET nextLap == IF Len(pitStops) = 0 THEN totalLaps \div 2
                      ELSE pitStops[Len(pitStops)].lap + 1
       IN  pitStops' = Append(pitStops,
                              [lap |-> Min(nextLap, totalLaps - 1),
                               tire |-> "hard"])
    /\ pc' = "addPitStop"
    /\ UNCHANGED <<historyVars, meterCoords, resolution, draggingPoint,
                   totalLaps, raceRun, compareRun, points, engineVars, appVars,
                   viewVars>>

\* removePitStop(index), lines 618-620
removePitStop(index) ==
    /\ index \in 0..(Len(pitStops) - 1)
    /\ pitStops' = SubSeq(pitStops, 1, index)
                      \o SubSeq(pitStops, index + 2, Len(pitStops))
    /\ pc' = "removePitStop"
    /\ UNCHANGED <<historyVars, meterCoords, resolution, draggingPoint,
                   totalLaps, raceRun, compareRun, points, engineVars, appVars,
                   viewVars>>

NextPit ==
    \/ addPitStop
    \/ \E index \in 0..(MaxLaps - 1) : removePitStop(index)

SpecPit == InitPit /\ [][NextPit]_vars

\* C28: after any sequence of addPitStop and removePitStop with a fixed
\* number of laps, no two pit stops of the plan are on the same lap.
C28_PitStopLapsDistinct ==
    \A i, j \in 1..Len(pitStops) :
        i # j => pitStops[i].lap # pitStops[j].lap

----------------------------------------------------------------------------
(* Dragging a control point in the map editor, while the strategy App's     *)
(* handlers replace the circuit.  Positions are container positions: the    *)
(* map is not moved during a drag (map.dragging.disable()).                 *)

\* An empty slot of an array: `newPoints[i] = p` with i past the end leaves
\* the slots between the old end and i empty.
Hole == [hole |-> TRUE]

HasHoles(pts) == \E k \in 1..Len(pts) : pts[k] = Hole

\* const newPoints = [...points]; newPoints[i] = p
assignAt(pts, i, p) ==
    IF i < Len(pts) THEN [pts EXCEPT ![i + 1] = p]
    ELSE IF i = Len(pts) THEN Append(pts, p)
    ELSE pts \o [k \in 1..(i - Len(pts)) |-> Hole] \o <<p>>

\* projectedPoints.findIndex(p => Math.hypot(...) < 15), when it hits
hitIndex(pts, x, y) ==
    CHOOSE i \in 0..(Len(pts) - 1) :
        /\ Hypot(At(pts, i).x - x, At(pts, i).y - y) < HitRadius
        /\ \A j \in 0..(i - 1) :
              ~(Hypot(At(pts, j).x - x, At(pts, j).y - y) < HitRadius)

\* The editor ignores the mouse during a playback.
MouseIgnored == isSimulating \/ ghostProgress # Undefined

\* mousedown: a press on a point starts dragging it, a press elsewhere adds
\* a point.  (On an array with empty slots findIndex throws.)
mousedown(p) ==
    /\ ~MouseIgnored
    /\ ~HasHoles(points)
    /\ IF hitsPoint(points, p.x, p.y)
       THEN /\ draggingPoint' = hitIndex(points, p.x, p.y)
            /\ UNCHANGED <<points, isCircuitComplete>>
       ELSE /\ Len(points) < MaxPoints
            /\ handlePointsChange(Append(points, p))
            /\ UNCHANGED draggingPoint
    /\ pc' = "mousedown"
    /\ alerted' = FALSE
    /\ UNCHANGED <<historyVars, meterCoords, resolution, pitStops, totalLaps,
                   raceRun, compareRun, circuitName, file, engineVars, viewVars>>

\* mousemove while draggingPoint is set: setPoints(newPoints), that is
\* handlePointsChange; checkCircuitComplete throws on an empty first slot,
\* after setCircuitPoints.
mousemove(p) ==
    /\ ~MouseIgnored
    /\ draggingPoint # NoPoint
    /\ LET newPoints == assignAt(points, draggingPoint, p)
       IN  /\ points' = newPoints
           /\ isCircuitComplete' =
                 IF Len(newPoints) >= 3 /\ newPoints[1] = Hole
                 THEN isCircuitComplete
                 ELSE checkCircuitComplete(newPoints)
    /\ pc' = "mousemove"
    /\ alerted' = FALSE
    /\ UNCHANGED <<historyVars, sessionVars, circuitName, file, engineVars, viewVars>>

\* mouseup: setDraggingPoint(null)
mouseup ==
    /\ draggingPoint' = NoPoint
    /\ pc' = "mouseup"
    /\ alerted' = FALSE
    /\ UNCHANGED <<historyVars, meterCoords, resolution, pitStops, totalLaps,
                   raceRun, compareRun, points, appVars, engineVars, viewVars>>

InitDrag == InitApp

NextDrag ==
    \/ \E p \in AppPositions : mousedown(p)
    \/ \E p \in AppPositions : mousemove(p)
    \/ mouseup
    \/ clearCircuit
    \/ \E name \in DOMAIN StoredCircuits : loadCircuit(name)
    \/ \E answer \in TemplateAnswers : loadTemplate(answer)
    \/ \E f \in ImportFiles : importCircuit(f)

SpecDrag == InitDrag /\ [][NextDrag]_vars

\* C25: whenever draggingPoint is set it is an index into the current
\* control points, so that a drag move replaces one existing point: the
\* moves never change the number of points and never leave empty slots,
\* however mouse down, move and up interleave with clearCircuit,
\* loadCircuit, importCircuit and the completion of loadTemplate.
C25_DraggingPointValid ==
    /\ draggingPoint # NoPoint => draggingPoint \in 0..(Len(points) - 1)
    /\ ~HasHoles(points)

----------------------------------------------------------------------------
(* The two async handlers of the strategy App, runSimulation and            *)
(* runComparison, as processes: a call is at its fetch, or in its animation *)
(* loop with some timer ticks left, or not running.  One call of each       *)
(* handler is followed at a time.                                           *)

\* Most timer ticks of one animation.
MaxTicks == 2

AtFetch == [at |-> "fetch"]
Animating(left) == [at |-> "animate", left |-> left]

\* What the backend does to a fetch: it fails (no connection, or a body
\* that is no JSON), it answers an empty lap list, or it answers laps that
\* take `ticks` timer ticks to play.
RaceAnswers ==
    { [kind |-> "failure"], [kind |-> "empty"] }
        \cup { [kind |-> "laps", ticks |-> k] : k \in 1..MaxTicks }

\* The same for /compare: total times of 0 and more ticks of the loop
\* `while (currentTime < maxDuration)`.
CompareAnswers ==
    { [kind |-> "failure"], [kind |-> "empty"] }
        \cup { [kind |-> "laps", ticks |-> k] : k \in 0..MaxTicks }

InitRun == InitApp

\* The Start Race button (disabled={isSimulating || !isCircuitComplete},
\* lines 837-840) and runSimulation up to its fetch, lines 342-367.
runSimulation ==
    /\ ~(isSimulating \/ ~isCircuitComplete)
    /\ raceRun = Idle
    /\ IF Len(points) < 3 \/ ~isCircuitComplete
       THEN /\ alerted' = TRUE
            /\ pc' = "alert"
            /\ UNCHANGED <<isSimulating, raceProgress, ghostProgress, raceRun>>
       ELSE /\ isSimulating' = TRUE
            /\ raceProgress' = 0
            /\ ghostProgress' = Undefined
            /\ raceRun' = AtFetch
            /\ alerted' = FALSE
            /\ pc' = "runSimulation"
    /\ UNCHANGED <<historyVars, meterCoords, resolution, draggingPoint, pitStops,
                   totalLaps, compareRun, points, isCircuitComplete, circuitName,
                   file, engineVars, splinePoints, carPosition, ghostPosition>>

\* Faulty variant of raceSettled: the failure path does not reset the flag
\* (no catch block).
raceSettledWithoutCatch(answer) ==
    /\ raceRun = AtFetch
    /\ IF answer.kind = "laps"
       THEN /\ raceRun' = Animating(answer.ticks)
            /\ pc' = "raceAnimating"
            /\ UNCHANGED <<isSimulating, alerted>>
       ELSE /\ raceRun' = Idle
            /\ pc' = IF answer.kind = "empty" THEN "raceEmpty" ELSE "raceFailed"
            /\ UNCHANGED <<isSimulating, alerted>>
    /\ UNCHANGED <<historyVars, meterCoords, resolution, draggingPoint, pitStops,
                   totalLaps, compareRun, points, isCircuitComplete, circuitName,
                   file, engineVars, splinePoints, raceProgress, ghostProgress,
                   carPosition, ghostPosition>>

\* runSimulation, lines 367-374 and 415-421: the fetch settles.  A failure
\* lands in the catch block.  An empty lap list skips the loop, and
\* data[data.length - 1].cumulative_time (line 397) throws into the catch
\* block as well.
raceSettled(answer) ==
    /\ raceRun = AtFetch
    /\ IF answer.kind = "laps"
       THEN /\ raceRun' = Animating(answer.ticks)
            /\ pc' = "raceAnimating"
            /\ UNCHANGED <<isSimulating, alerted>>
       ELSE /\ raceRun' = Idle
            /\ isSimulating' = FALSE
            /\ alerted' = TRUE
            /\ pc' = IF answer.kind = "empty" THEN "raceEmpty" ELSE "raceFailed"
    /\ UNCHANGED <<historyVars, meterCoords, resolution, draggingPoint, pitStops,
                   totalLaps, compareRun, points, isCircuitComplete, circuitName,
                   file, engineVars, splinePoints, raceProgress, ghostProgress,
                   carPosition, ghostPosition>>

\* runSimulation, lines 387-392: a 30 ms timer fires, setRaceProgress
raceTimer(progress) ==
    /\ raceRun.at = "animate"
    /\ raceRun.left > 0
    /\ raceRun' = Animating(raceRun.left - 1)
    /\ raceProgress' = progress
    /\ pc' = "raceTimer"
    /\ UNCHANGED <<historyVars, meterCoords, resolution, draggingPoint, pitStops,
                   totalLaps, compareRun, points, appVars, engineVars,
                   splinePoints, isSimulating, ghostProgress, carPosition,
                   ghostPosition>>

\* runSimulation, lines 396-415: after the last lap
raceDone ==
    /\ raceRun.at = "animate"
    /\ raceRun.left = 0
    /\ raceRun' = Idle
    /\ isSimulating' = FALSE
    /\ pc' = "raceDone"
    /\ UNCHANGED <<historyVars, meterCoords, resolution, draggingPoint, pitStops,
                   totalLaps, compareRun, points, appVars, engineVars,
                   splinePoints, raceProgress, ghostProgress, carPosition,
                   ghostPosition>>

\* The Compare Strategies button (disabled={!isCircuitComplete}, lines
\* 845-849) and runComparison up to its fetch, lines 425-452.
runComparison ==
    /\ isCircuitComplete
    /\ compareRun = Idle
    /\ isSimulating' = TRUE
    /\ compareRun' = AtFetch
    /\ pc' = "runComparison"
    /\ UNCHANGED <<historyVars, meterCoords, resolution, draggingPoint, pitStops,
                   totalLaps, raceRun, points, appVars, engineVars, splinePoints,
                   raceProgress, ghostProgress, carPosition, ghostPosition>>

\* runComparison, lines 452-468 and 511-515: the fetch settles.  Without
\* strategies, data.strategy_a.laps throws into the catch block.
compareSettled(answer) ==
    /\ compareRun = AtFetch
    /\ IF answer.kind = "laps"
       THEN /\ compareRun' = Animating(answer.ticks)
            /\ pc' = "compareAnimating"
            /\ UNCHANGED <<isSimulating, ghostProgress>>
       ELSE /\ compareRun' = Idle
            /\ isSimulating' = FALSE
            /\ ghostProgress' = Undefined
            /\ pc' = IF answer.kind = "empty" THEN "compareEmpty"
                      ELSE "compareFailed"
    /\ UNCHANGED <<historyVars, meterCoords, resolution, draggingPoint, pitStops,
                   totalLaps, raceRun, points, appVars, engineVars, splinePoints,
                   raceProgress, carPosition, ghostPosition>>

\* runComparison, lines 474-505: a 40 ms timer fires
compareTimer(progA, progB) ==
    /\ compareRun.at = "animate"
    /\ compareRun.left > 0
    /\ compareRun' = Animating(compareRun.left - 1)
    /\ raceProgress' = progA
    /\ ghostProgress' = progB
    /\ pc' = "compareTimer"
    /\ UNCHANGED <<historyVars, meterCoords, resolution, draggingPoint, pitStops,
                   totalLaps, raceRun, points, appVars, engineVars, splinePoints,
                   isSimulating, carPosition, ghostPosition>>

\* runComparison, lines 507-509: currentTime has reached maxDuration
compareDone ==
    /\ compareRun.at = "animate"
    /\ compareRun.left = 0
    /\ compareRun' = Idle
    /\ ghostProgress' = Undefined
    /\ isSimulating' = FALSE
    /\ pc' = "compareDone"
    /\ UNCHANGED <<historyVars, meterCoords, resolution, draggingPoint, pitStops,
                   totalLaps, raceRun, points, appVars, engineVars, splinePoints,
                   raceProgress, carPosition, ghostPosition>>

\* Progress values the timers set.
RunProgresses == {0, 50, 100}

NextRun ==
    \/ \E name \in DOMAIN StoredCircuits : loadCircuit(name)
    \/ runSimulation
    \/ \E answer \in RaceAnswers : raceSettled(answer)
    \/ \E progress \in RunProgresses : raceTimer(progress)
    \/ raceDone
    \/ runComparison
    \/ \E answer \in CompareAnswers : compareSettled(answer)
    \/ \E progA \in RunProgresses, progB \in RunProgresses : compareTimer(progA, progB)
    \/ compareDone

SpecRun == InitRun /\ [][NextRun]_vars

\* C26: at most one race or comparison animation runs at a time: neither
\* runSimulation nor runComparison starts while isSimulating is true.
C26_OneAnimationAtATime ==
    [][((raceRun = Idle /\ raceRun' # Idle)
          \/ (compareRun = Idle /\ compareRun' # Idle)) => ~isSimulating]_vars


\* Timers fire and a fetch settles: every step of a running call that stays
\* possible is eventually taken.  The clicks are under no obligation.
FairRun ==
    /\ SpecRun
    /\ WF_vars(\E answer \in RaceAnswers : raceSettled(answer))
    /\ WF_vars(\E progress \in RunProgresses : raceTimer(progress))
    /\ WF_vars(raceDone)
    /\ WF_vars(\E answer \in CompareAnswers : compareSettled(answer))
    /\ WF_vars(\E progA \in RunProgresses, progB \in RunProgresses :
                  compareTimer(progA, progB))
    /\ WF_vars(compareDone)

====
